---- MODULE Spec2Model ----
(***************************************************************************)
(* Model of thoughtgears/shared-services: the generic Firestore repository *)
(* (pkg/db/firestore.go), the sparse partial-update builder and the user   *)
(* service (internal/services/user_service.go), the file-type functions,   *)
(* the blob store (pkg/gcs/gcs.go) and the document service                *)
(* (internal/services/document_service.go).                                *)
(*                                                                         *)
(* A collection is a function from the identifiers of the stored documents *)
(* to their field maps; a field map is a function from leaf field paths    *)
(* ("phone", "address.city") to values.  Strings are strings, timestamps   *)
(* are integers (0 is the zero time.Time).                                 *)
(*                                                                         *)
(* Specifications:                                                         *)
(*   Spec      - the repository's Create, Update, Delete and GetByID on a   *)
(*               collection that starts empty;                             *)
(*   SpecRead  - GetAll and GetByQuery calls on a populated collection;    *)
(*   SpecPage  - a client paging through a populated collection by GetAll; *)
(*   SpecBuild - buildUpdateMapFromUser on sparse user values;             *)
(*   SpecSvc   - the user service (GetByID, Create, Update);               *)
(*   SpecSniff - DetectFileType and GetStandardizedExtension on sample     *)
(*               data and names;                                           *)
(*   SpecBlob  - the blob store's Upload, Download, Delete and List on a   *)
(*               bucket that starts empty;                                 *)
(*   SpecDoc   - the document service (GetByID, Create, Update, Delete) on *)
(*               stores that start empty; clock counts its calls;          *)
(*   SpecHttp  - the document handlers in front of the document service;   *)
(*   SpecList  - GetAllByUserID on seeded collections around its page      *)
(*               size;                                                     *)
(*   SpecRace  - a Delete and an Update of the document service in flight  *)
(*               at the same time, one store call at a step;               *)
(*   SpecRetry - the document service's calls on stores that hold one      *)
(*               document;                                                 *)
(*   SpecScan  - a GetAll scan with creates and deletes between its pages; *)
(*   SpecQuery - a GetByQuery scan with creates and deletes between its    *)
(*               pages.                                                    *)
(*                                                                         *)
(* users is the users collection, clock the server's time, last the last   *)
(* call with its arguments, the collection before it and what it returned, *)
(* scan the state of the paging client, build that of the map builder,     *)
(* documents the documents collection, blobs the objects of the bucket and *)
(* sniff the last call of a file-type function with its result, procs the  *)
(* positions of the document service's calls that are in flight at the     *)
(* same time.                                                              *)
(***************************************************************************)
EXTENDS Integers, Sequences, FiniteSets, TLC

VARIABLES users, clock, last, scan, build, documents, blobs, sniff, procs

vars == <<users, clock, last, scan, build, documents, blobs, sniff, procs>>

(***************************************************************************)
(* Bounds of the model.                                                    *)
(***************************************************************************)
MaxKeys == 4
MaxWriteKeys == 2
MaxClock == 3
MaxPage == 3

(***************************************************************************)
(* Identifiers.  Firestore orders document identifiers lexicographically;  *)
(* Rank is that order on the identifiers of the model, the empty string    *)
(* (no page token) coming before all of them.                              *)
(***************************************************************************)
Min(a, b) == IF a <= b THEN a ELSE b

KeyOf(i) == "k" \o ToString(i)

Keys == {KeyOf(i) : i \in 1..MaxKeys}

\* The number of documents a seeded collection holds beyond (and below) the
\* page size of GetAllByUserID, and the number of documents of another owner.
MaxOver == 2

\* The page size documentService.GetAllByUserID asks the repository for.
GetAllByUserIDPageSize == 100

\* The identifiers of the model: those of the small collections, and enough
\* of them to fill a collection beyond the page size of GetAllByUserID.
MaxRank == IF MaxKeys > GetAllByUserIDPageSize + 2 * MaxOver THEN MaxKeys ELSE GetAllByUserIDPageSize + 2 * MaxOver

\* The position of every identifier in the order of firestore.DocumentID.
RankTable ==
    [id \in {KeyOf(i) : i \in 1..MaxRank} |-> CHOOSE i \in 1..MaxRank : KeyOf(i) = id]

Rank(id) == IF id = "" THEN 0 ELSE RankTable[id]

\* The identifiers the write operations of the model are called with.
WriteKeys == {KeyOf(i) : i \in 1..Min(MaxWriteKeys, MaxKeys)}

Tokens == Keys \cup {""}

PageSizes == (-1)..MaxPage

EmptyFields == [p \in {} |-> ""]

(***************************************************************************)
(* models.User and models.Address, named by their firestore tags.          *)
(***************************************************************************)
AddressTags == <<"building_number", "street", "city", "zip_code", "country">>

UserTags ==
    << [tag |-> "id", kind |-> "string"],
       [tag |-> "first_name", kind |-> "string"],
       [tag |-> "last_name", kind |-> "string"],
       [tag |-> "email", kind |-> "string"],
       [tag |-> "phone", kind |-> "string"],
       [tag |-> "address", kind |-> "struct"],
       [tag |-> "firebase_id", kind |-> "string"],
       [tag |-> "created_at", kind |-> "time.Time"],
       [tag |-> "updated_at", kind |-> "time.Time"] >>

Range(s) == {s[i] : i \in 1..Len(s)}

TagsOfKind(kind) == {f.tag : f \in {g \in Range(UserTags) : g.kind = kind}}

StringTags == TagsOfKind("string")

TimeTags == TagsOfKind("time.Time")

AddrPath(f) == "address." \o f

AddrPaths == {AddrPath(f) : f \in Range(AddressTags)}

NestedOf(p) == CHOOSE f \in Range(AddressTags) : AddrPath(f) = p

UserPaths == StringTags \cup TimeTags \cup AddrPaths

ZeroAddress ==
    [building_number |-> "", street |-> "", city |-> "", zip_code |-> "", country |-> ""]

ZeroUser ==
    [id |-> "", first_name |-> "", last_name |-> "", email |-> "", phone |-> "",
     address |-> ZeroAddress, firebase_id |-> "", created_at |-> 0, updated_at |-> 0]

(***************************************************************************)
(* The document store as the repository uses it.                           *)
(***************************************************************************)
\* firestore.ServerTimestamp: the value the server replaces by its clock.
ServerTimestamp == -1

\* Encoding of a *T handed to Set: every tagged field is written, nested
\* structs as nested maps; a serverTimestamp-tagged field holding the zero
\* time is written as the server's time.
ToFields(u) ==
    [p \in UserPaths |->
        IF p \in StringTags THEN u[p]
        ELSE IF p \in TimeTags THEN (IF u[p] = 0 THEN ServerTimestamp ELSE u[p])
        ELSE u.address[NestedOf(p)]]

\* doc.DataTo(&data): the stored fields decoded into a zero-initialised T.
DataTo(doc) ==
    LET F(p, zero) == IF p \in DOMAIN doc THEN doc[p] ELSE zero
    IN  [id |-> F("id", ""), first_name |-> F("first_name", ""),
         last_name |-> F("last_name", ""), email |-> F("email", ""),
         phone |-> F("phone", ""),
         address |-> [f \in Range(AddressTags) |-> F(AddrPath(f), "")],
         firebase_id |-> F("firebase_id", ""),
         created_at |-> F("created_at", 0), updated_at |-> F("updated_at", 0)]

\* The server resolving ServerTimestamp values of a write at time now.
Stamp(fields, now) ==
    [p \in DOMAIN fields |->
        IF p \in TimeTags /\ fields[p] = ServerTimestamp THEN now ELSE fields[p]]

\* DocumentRef.Set(ctx, data): the document is replaced as a whole.
Set(coll, id, fields, now) ==
    [k \in DOMAIN coll \cup {id} |-> IF k = id THEN Stamp(fields, now) ELSE coll[k]]

\* The leaf field paths of an update map; the nested address map
\* contributes one path per nested key.
Flatten(m) ==
    LET top == DOMAIN m \ {"address"}
        nested == IF "address" \in DOMAIN m
                  THEN {AddrPath(f) : f \in DOMAIN m["address"]} ELSE {}
    IN  [p \in top \cup nested |->
            IF p \in top THEN m[p]
            ELSE m["address"][CHOOSE f \in DOMAIN m["address"] : AddrPath(f) = p]]

\* DocumentRef.Set(ctx, data, firestore.MergeAll): the leaf fields of the map
\* are written over those of the stored document, the other stored fields
\* are kept; a missing document is created from the map.
SetMergeAll(coll, id, m, now) ==
    LET new == Stamp(Flatten(m), now)
        old == IF id \in DOMAIN coll THEN coll[id] ELSE EmptyFields
        merged == [p \in DOMAIN old \cup DOMAIN new |->
                      IF p \in DOMAIN new THEN new[p] ELSE old[p]]
    IN  [k \in DOMAIN coll \cup {id} |-> IF k = id THEN merged ELSE coll[k]]

\* DocumentRef.Delete(ctx): removes the document; deleting a missing
\* document succeeds and changes nothing.
DocDelete(coll, id) == [k \in DOMAIN coll \ {id} |-> coll[k]]

\* All identifiers in the order of firestore.DocumentID.
KeysInOrder == [i \in 1..MaxRank |-> KeyOf(i)]

\* OrderBy(firestore.DocumentID, firestore.Asc)
SortKeys(S) == SelectSeq(KeysInOrder, LAMBDA k : k \in S)

\* (a cursor that starts at the token instead of after it)
StartAtToken(S, pageToken) == {k \in S : Rank(k) >= Rank(pageToken)}

\* (a cursor that starts over when the token's record is gone)
StartAfterStored(S, pageToken) ==
    IF pageToken \in S THEN {k \in S : Rank(k) > Rank(pageToken)} ELSE S

\* query.StartAfter(pageToken) under the identifier order.
StartAfter(S, pageToken) == {k \in S : Rank(k) > Rank(pageToken)}

\* query.Limit(pageSize)
Limit(ids, pageSize) == SubSeq(ids, 1, Min(pageSize, Len(ids)))

\* query.Where(q.Path, q.Op, q.Value) for every constraint of the list.
Matches(doc, q) ==
    /\ q.Path \in DOMAIN doc
    /\ CASE q.Op = "==" -> doc[q.Path] = q.Value
         [] q.Op = "in" -> doc[q.Path] \in q.Value
         [] OTHER -> FALSE

\* (a query that keeps the documents matching some constraint of the list)
WhereAny(coll, queries) ==
    {k \in DOMAIN coll : \E i \in 1..Len(queries) : Matches(coll[k], queries[i])}

Where(coll, queries) ==
    {k \in DOMAIN coll : \A i \in 1..Len(queries) : Matches(coll[k], queries[i])}

(***************************************************************************)
(* pkg/db/firestore.go: the generic repository.  Every operation is an     *)
(* operator from the collection and the call's arguments to the collection *)
(* afterwards and the values returned.  fault names the store call of the  *)
(* operation that fails with a transport error ("" when none does).        *)
(***************************************************************************)
Page(coll, items, refs, next, err) ==
    [coll |-> coll, items |-> items, refs |-> refs, next |-> next, err |-> err]

One(coll, item, err) == [coll |-> coll, item |-> item, err |-> err]

Decode(coll, ids) == [i \in 1..Len(ids) |-> DataTo(coll[ids[i]])]

\* The result r of an operation with the reads it issued to the store.
Called(r, calls) ==
    [coll |-> r.coll, items |-> r.items, refs |-> r.refs, next |-> r.next,
     err |-> r.err, calls |-> calls]

\* (a token for every non-empty page, full or not)
NextPageTokenAnyPage(pageSize, ids) ==
    IF pageSize > 0 /\ Len(ids) > 0 THEN ids[Len(ids)] ELSE ""

\* (the full-page test off by one: len(results) > pageSize)
NextPageTokenOffByOne(pageSize, ids) ==
    IF pageSize > 0 /\ Len(ids) > pageSize THEN ids[Len(ids)] ELSE ""

\* GetAll's next page token: the last identifier of an exactly full page.
NextPageToken(pageSize, ids) ==
    IF pageSize > 0 /\ Len(ids) = pageSize THEN ids[Len(ids)] ELSE ""

\* GetByQuery's next page token.
QueryNextPageToken(pageSize, ids) ==
    IF pageSize > 0 /\ Len(ids) = pageSize /\ Len(ids) > 0 THEN ids[Len(ids)] ELSE ""

GetAll(coll, pageToken, pageSize, fault) ==
    LET all == DOMAIN coll
        after == IF pageToken # "" THEN StartAfter(all, pageToken) ELSE all
        ordered == SortKeys(after)
        ids == IF pageSize > 0 THEN Limit(ordered, pageSize) ELSE ordered
        results == Decode(coll, ids)
        nextPageToken == NextPageToken(pageSize, ids)
    IN  IF fault = "iterate"
        THEN Page(coll, <<>>, <<>>, "", "Unavailable")
        ELSE Page(coll, results, ids, nextPageToken, "")

GetByID(coll, id, fault) ==
    IF fault = "get" THEN One(coll, ZeroUser, "Unavailable")
    ELSE IF id \notin DOMAIN coll THEN One(coll, ZeroUser, "NotFound")
    ELSE One(coll, DataTo(coll[id]), "")

GetByQuery(coll, queries, pageToken, pageSize, fault) ==
    LET matching == Where(coll, queries)
        after == IF pageToken # "" THEN StartAfter(matching, pageToken) ELSE matching
        ordered == SortKeys(after)
        ids == IF pageSize > 0 THEN Limit(ordered, pageSize) ELSE ordered
        results == Decode(coll, ids)
        nextPageToken == QueryNextPageToken(pageSize, ids)
        tokenGet == IF pageToken # "" THEN <<"Doc.Get">> ELSE <<>>
    IN  IF pageToken # "" /\ fault = "get"
        THEN Called(Page(coll, <<>>, <<>>, "", "Unavailable"), tokenGet)
        ELSE IF pageToken # "" /\ pageToken \notin DOMAIN coll
        THEN Called(Page(coll, <<>>, <<>>, "", "NotFound"), tokenGet)
        ELSE IF fault = "iterate"
        THEN Called(Page(coll, <<>>, <<>>, "", "Unavailable"),
                    tokenGet \o <<"Query.Documents">>)
        ELSE Called(Page(coll, results, ids, nextPageToken, ""),
                    tokenGet \o <<"Query.Documents">>)

\* (a create that leaves a stored document as it is)
CreateKeepsExisting(coll, id, fields, now, fault) ==
    LET written == IF id \in DOMAIN coll THEN coll ELSE Set(coll, id, fields, now)
    IN  IF fault = "set" THEN One(coll, ZeroUser, "Unavailable")
        ELSE IF fault = "get" THEN One(written, ZeroUser, "Unavailable")
        ELSE One(written, DataTo(written[id]), "")

\* fields is the data handed to Set as the store encodes it: ToFields of a
\* *T, or the field map a service has built.
Create(coll, id, fields, now, fault) ==
    LET written == Set(coll, id, fields, now)
    IN  IF fault = "set" THEN One(coll, ZeroUser, "Unavailable")
        ELSE IF fault = "get" THEN One(written, ZeroUser, "Unavailable")
        ELSE One(written, DataTo(written[id]), "")

\* (an update that replaces the stored document by the map)
UpdateOverwrites(coll, id, data, now, fault) ==
    LET written == Set(coll, id, Flatten(data), now)
    IN  IF fault = "set" THEN One(coll, ZeroUser, "Unavailable")
        ELSE IF fault = "get" THEN One(written, ZeroUser, "Unavailable")
        ELSE One(written, DataTo(written[id]), "")

Update(coll, id, data, now, fault) ==
    LET written == SetMergeAll(coll, id, data, now)
    IN  IF fault = "set" THEN One(coll, ZeroUser, "Unavailable")
        ELSE IF fault = "get" THEN One(written, ZeroUser, "Unavailable")
        ELSE One(written, DataTo(written[id]), "")

Delete(coll, id, fault) ==
    IF fault = "delete" THEN One(coll, ZeroUser, "Unavailable")
    ELSE One(DocDelete(coll, id), ZeroUser, "")

(***************************************************************************)
(* Inputs of the repository calls.                                         *)
(***************************************************************************)
Ann ==
    [ZeroUser EXCEPT !.id = "k1", !.first_name = "Ann", !.phone = "0123",
                     !.firebase_id = "f1",
                     !.address = [ZeroAddress EXCEPT !.city = "Oslo", !.zip_code = "0150",
                                                     !.country = "NO"]]

Bob ==
    [ZeroUser EXCEPT !.id = "k2", !.email = "bob@example.org", !.firebase_id = "f2",
                     !.address = [ZeroAddress EXCEPT !.street = "Main"],
                     !.created_at = 1]

SampleUsers == {Ann, Bob}

SampleMaps ==
    { [phone |-> "0999", updated_at |-> ServerTimestamp],
      [first_name |-> "Zed", address |-> [city |-> "Rome"]] }

SampleQueries ==
    { <<>>,
      << [Path |-> "firebase_id", Op |-> "==", Value |-> "f1"] >>,
      << [Path |-> "firebase_id", Op |-> "in", Value |-> {"f1", "f2"}],
         [Path |-> "address.city", Op |-> "==", Value |-> "Oslo"] >> }

Faults(S) == S \cup {""}

(***************************************************************************)
(* The last call and what it returned.                                     *)
(***************************************************************************)
NoCall ==
    [op |-> "", id |-> "", pageToken |-> "", pageSize |-> 0, queries |-> <<>>,
     data |-> ZeroUser, map |-> EmptyFields, fault |-> "", pre |-> EmptyFields,
     now |-> 0, item |-> ZeroUser, items |-> <<>>, refs |-> <<>>, next |-> "",
     err |-> "", calls |-> <<>>]

NoScan ==
    [pageSize |-> 0, next |-> "", items |-> <<>>, refs |-> <<>>, pages |-> 0,
     lastLen |-> 0, done |-> FALSE]

NoBuild ==
    [stage |-> "", user |-> ZeroUser, isNil |-> FALSE, updates |-> EmptyFields,
     sent |-> EmptyFields]

NoSniff == [op |-> ""]

\* A call of the document service that is not in flight.
Idle ==
    [pc |-> "idle", id |-> "", path |-> <<>>, content |-> <<>>, document |-> EmptyFields,
     item |-> EmptyFields, err |-> ""]

\* No concurrent calls: neither a Delete nor an Update has started.
NoProcs == [del |-> Idle, upd |-> Idle, overlap |-> FALSE]

Init ==
    /\ users = EmptyFields
    /\ clock = 0
    /\ last = NoCall
    /\ scan = NoScan
    /\ build = NoBuild
    /\ documents = EmptyFields
    /\ blobs = EmptyFields
    /\ sniff = NoSniff
    /\ procs = NoProcs

\* The caller has taken the result of its call; the next request is handled
\* independently of it.
Return ==
    /\ last.op # ""
    /\ last' = NoCall
    /\ UNCHANGED <<users, clock, scan, build, documents, blobs, sniff, procs>>

RepoGetAll ==
    \E pageToken \in Tokens, pageSize \in PageSizes, fault \in Faults({"iterate"}) :
        LET r == GetAll(users, pageToken, pageSize, fault)
        IN  /\ last.op = ""
            /\ last' = [NoCall EXCEPT !.op = "GetAll", !.pageToken = pageToken,
                            !.pageSize = pageSize, !.fault = fault, !.pre = users,
                            !.items = r.items, !.refs = r.refs, !.next = r.next,
                            !.err = r.err]
            /\ UNCHANGED <<users, clock, scan, build, documents, blobs, sniff, procs>>

RepoGetByID ==
    \E id \in WriteKeys, fault \in Faults({"get"}) :
        LET r == GetByID(users, id, fault)
        IN  /\ last' = [NoCall EXCEPT !.op = "GetByID", !.id = id, !.fault = fault,
                            !.pre = users, !.item = r.item, !.err = r.err]
            /\ UNCHANGED <<users, clock, scan, build, documents, blobs, sniff, procs>>

RepoGetByQuery ==
    \E queries \in SampleQueries, pageToken \in Tokens, pageSize \in PageSizes,
       fault \in Faults({"get", "iterate"}) :
        LET r == GetByQuery(users, queries, pageToken, pageSize, fault)
        IN  /\ last.op = ""
            /\ last' = [NoCall EXCEPT !.op = "GetByQuery", !.queries = queries,
                            !.pageToken = pageToken, !.pageSize = pageSize,
                            !.fault = fault, !.pre = users, !.items = r.items,
                            !.refs = r.refs, !.next = r.next, !.err = r.err,
                            !.calls = r.calls]
            /\ UNCHANGED <<users, clock, scan, build, documents, blobs, sniff, procs>>

RepoCreate ==
    \E id \in WriteKeys, data \in SampleUsers, fault \in Faults({"set", "get"}) :
        LET r == Create(users, id, ToFields(data), clock + 1, fault)
        IN  /\ clock < MaxClock
            /\ users' = r.coll
            /\ clock' = IF fault = "set" THEN clock ELSE clock + 1
            /\ last' = [NoCall EXCEPT !.op = "Create", !.id = id, !.data = data,
                            !.fault = fault, !.pre = users, !.now = clock + 1,
                            !.item = r.item, !.err = r.err]
            /\ UNCHANGED <<scan, build, documents, blobs, sniff, procs>>

RepoUpdate ==
    \E id \in WriteKeys, data \in SampleMaps, fault \in Faults({"set", "get"}) :
        LET r == Update(users, id, data, clock + 1, fault)
        IN  /\ clock < MaxClock
            /\ users' = r.coll
            /\ clock' = IF fault = "set" THEN clock ELSE clock + 1
            /\ last' = [NoCall EXCEPT !.op = "Update", !.id = id, !.map = data,
                            !.fault = fault, !.pre = users, !.now = clock + 1,
                            !.item = r.item, !.err = r.err]
            /\ UNCHANGED <<scan, build, documents, blobs, sniff, procs>>

RepoDelete ==
    \E id \in WriteKeys, fault \in Faults({"delete"}) :
        LET r == Delete(users, id, fault)
        IN  /\ users' = r.coll
            /\ last' = [NoCall EXCEPT !.op = "Delete", !.id = id, !.fault = fault,
                            !.pre = users, !.err = r.err]
            /\ UNCHANGED <<clock, scan, build, documents, blobs, sniff, procs>>

Next ==
    \/ RepoGetByID
    \/ RepoCreate
    \/ RepoUpdate
    \/ RepoDelete

Spec == Init /\ [][Next]_vars

(***************************************************************************)
(* Paging.  The collection is one that Create calls have populated and is  *)
(* not written while pages are read.  A paging client calls GetAll with an *)
(* empty page token and then with every token returned, until the token    *)
(* returned is empty.                                                      *)
(***************************************************************************)
SeedUser(id) == IF Rank(id) % 2 = 1 THEN [Ann EXCEPT !.id = id] ELSE [Bob EXCEPT !.id = id]

RECURSIVE Populate(_, _)
Populate(coll, ids) ==
    IF ids = <<>> THEN coll
    ELSE Populate(Create(coll, Head(ids), ToFields(SeedUser(Head(ids))),
                         Rank(Head(ids)), "").coll,
                  Tail(ids))

InitPage ==
    /\ \E S \in SUBSET Keys : users = Populate(EmptyFields, SortKeys(S))
    /\ clock = MaxKeys
    /\ last = NoCall
    /\ scan = NoScan
    /\ build = NoBuild
    /\ documents = EmptyFields
    /\ blobs = EmptyFields
    /\ sniff = NoSniff
    /\ procs = NoProcs

ScanStart ==
    \E pageSize \in 1..MaxPage :
        LET r == GetAll(users, "", pageSize, "")
        IN  /\ scan' = [pageSize |-> pageSize, next |-> r.next, items |-> r.items,
                        refs |-> r.refs, pages |-> 1, lastLen |-> Len(r.items),
                        done |-> (r.next = "")]
            /\ UNCHANGED <<users, clock, last, build, documents, blobs, sniff, procs>>

ScanNext ==
    LET r == GetAll(users, scan.next, scan.pageSize, "")
    IN  /\ scan.pages > 0
        /\ ~scan.done
        /\ scan' = [scan EXCEPT !.next = r.next, !.items = scan.items \o r.items,
                        !.refs = scan.refs \o r.refs, !.pages = scan.pages + 1,
                        !.lastLen = Len(r.items), !.done = (r.next = "")]
        /\ UNCHANGED <<users, clock, last, build, documents, blobs, sniff, procs>>

NextPage ==
    \/ ScanStart
    \/ ScanNext

SpecPage == InitPage /\ [][NextPage]_vars

NextRead ==
    \/ RepoGetAll
    \/ RepoGetByQuery
    \/ Return

SpecRead == InitPage /\ [][NextRead]_vars

(***************************************************************************)
(* internal/services/user_service.go: the partial update builder.          *)
(***************************************************************************)
Put(m, k, v) == [x \in DOMAIN m \cup {k} |-> IF x = k THEN v ELSE m[x]]

\* isZeroValue by reflect.Kind; models.User and models.Address hold strings,
\* and every other kind a field of theirs has falls to the final return false.
isZeroValue(kind, v) ==
    CASE kind = "string" -> v = ""
      [] OTHER -> FALSE

RECURSIVE NestedFrom(_, _, _)
\* The loop of buildNestedUpdateMap from field i on.
NestedFrom(obj, i, updates) ==
    IF i > Len(AddressTags) THEN updates
    ELSE LET tagName == AddressTags[i]
         IN  IF obj[tagName] = "" THEN NestedFrom(obj, i + 1, updates)
             ELSE IF isZeroValue("string", obj[tagName]) THEN NestedFrom(obj, i + 1, updates)
             ELSE NestedFrom(obj, i + 1, Put(updates, tagName, obj[tagName]))

buildNestedUpdateMap(obj) == NestedFrom(obj, 1, EmptyFields)

RECURSIVE BuildFrom(_, _, _)
\* The loop of buildUpdateMapFromUser from field i on.
BuildFrom(user, i, updates) ==
    IF i > Len(UserTags) THEN updates
    ELSE LET tagName == UserTags[i].tag
             kind == UserTags[i].kind
         IN  IF kind \in {"struct", "time.Time"}
             THEN IF kind = "time.Time" THEN BuildFrom(user, i + 1, updates)
                  ELSE LET nestedUpdates == buildNestedUpdateMap(user[tagName])
                       IN  IF Cardinality(DOMAIN nestedUpdates) > 0
                           THEN BuildFrom(user, i + 1, Put(updates, tagName, nestedUpdates))
                           ELSE BuildFrom(user, i + 1, updates)
             ELSE IF kind = "string" /\ user[tagName] = ""
             THEN BuildFrom(user, i + 1, updates)
             ELSE IF isZeroValue(kind, user[tagName])
             THEN BuildFrom(user, i + 1, updates)
             ELSE BuildFrom(user, i + 1, Put(updates, tagName, user[tagName]))

RECURSIVE BuildTimesToo(_, _, _)
\* (a builder without the time.Time skip: a set timestamp is emitted)
BuildTimesToo(user, i, updates) ==
    IF i > Len(UserTags) THEN updates
    ELSE LET tagName == UserTags[i].tag
             kind == UserTags[i].kind
         IN  IF kind = "struct"
             THEN LET nestedUpdates == buildNestedUpdateMap(user[tagName])
                  IN  IF Cardinality(DOMAIN nestedUpdates) > 0
                      THEN BuildTimesToo(user, i + 1, Put(updates, tagName, nestedUpdates))
                      ELSE BuildTimesToo(user, i + 1, updates)
             ELSE IF kind = "string" /\ user[tagName] = ""
             THEN BuildTimesToo(user, i + 1, updates)
             ELSE IF kind = "time.Time" /\ user[tagName] = 0
             THEN BuildTimesToo(user, i + 1, updates)
             ELSE BuildTimesToo(user, i + 1, Put(updates, tagName, user[tagName]))

RECURSIVE BuildAllStrings(_, _, _)
\* (a builder without the empty-string skip)
BuildAllStrings(user, i, updates) ==
    IF i > Len(UserTags) THEN updates
    ELSE LET tagName == UserTags[i].tag
             kind == UserTags[i].kind
         IN  IF kind = "time.Time" THEN BuildAllStrings(user, i + 1, updates)
             ELSE IF kind = "struct"
             THEN LET nestedUpdates == buildNestedUpdateMap(user[tagName])
                  IN  IF Cardinality(DOMAIN nestedUpdates) > 0
                      THEN BuildAllStrings(user, i + 1, Put(updates, tagName, nestedUpdates))
                      ELSE BuildAllStrings(user, i + 1, updates)
             ELSE BuildAllStrings(user, i + 1, Put(updates, tagName, user[tagName]))

buildUpdateMapAllStrings(user, isNil) ==
    IF isNil THEN EmptyFields ELSE BuildAllStrings(user, 1, EmptyFields)

buildUpdateMapTimesToo(user, isNil) ==
    IF isNil THEN EmptyFields ELSE BuildTimesToo(user, 1, EmptyFields)

\* isNil: the *models.User is nil, and the map returned is nil (of length 0).
buildUpdateMapFromUser(user, isNil) ==
    IF isNil THEN EmptyFields ELSE BuildFrom(user, 1, EmptyFields)

(***************************************************************************)
(* The builder on sparse inputs: a user value with at most MaxSet fields   *)
(* set, the others zero; userService.Update then adds the server-managed   *)
(* update timestamp to a map that is not empty.                            *)
(***************************************************************************)
MaxSet == 3

SetValue(p) ==
    CASE p = "phone" -> "0123"
      [] p = "id" -> "k2"
      [] p = "firebase_id" -> "f2"
      [] OTHER -> "x"

UserWith(S) ==
    [id |-> IF "id" \in S THEN SetValue("id") ELSE "",
     first_name |-> IF "first_name" \in S THEN SetValue("first_name") ELSE "",
     last_name |-> IF "last_name" \in S THEN SetValue("last_name") ELSE "",
     email |-> IF "email" \in S THEN SetValue("email") ELSE "",
     phone |-> IF "phone" \in S THEN SetValue("phone") ELSE "",
     address |-> [f \in Range(AddressTags) |->
                    IF AddrPath(f) \in S THEN SetValue(AddrPath(f)) ELSE ""],
     firebase_id |-> IF "firebase_id" \in S THEN SetValue("firebase_id") ELSE "",
     created_at |-> IF "created_at" \in S THEN 1 ELSE 0,
     updated_at |-> IF "updated_at" \in S THEN 1 ELSE 0]

SparseUsers == {UserWith(S) : S \in {T \in SUBSET UserPaths : Cardinality(T) <= MaxSet}}

InitBuild ==
    /\ users = EmptyFields
    /\ clock = 0
    /\ last = NoCall
    /\ scan = NoScan
    /\ \/ \E u \in SparseUsers : build = [NoBuild EXCEPT !.stage = "input", !.user = u]
       \/ build = [NoBuild EXCEPT !.stage = "input", !.isNil = TRUE]
    /\ documents = EmptyFields
    /\ blobs = EmptyFields
    /\ sniff = NoSniff
    /\ procs = NoProcs

BuildMap ==
    /\ build.stage = "input"
    /\ build' = [build EXCEPT !.stage = "built",
                     !.updates = buildUpdateMapFromUser(build.user, build.isNil)]
    /\ UNCHANGED <<users, clock, last, scan, documents, blobs, sniff, procs>>

SkipUpdate ==
    /\ build.stage = "built"
    /\ Cardinality(DOMAIN build.updates) = 0
    /\ build' = [build EXCEPT !.stage = "skipped"]
    /\ UNCHANGED <<users, clock, last, scan, documents, blobs, sniff, procs>>

AddTimestamp ==
    /\ build.stage = "built"
    /\ Cardinality(DOMAIN build.updates) # 0
    /\ build' = [build EXCEPT !.stage = "sent",
                     !.sent = Put(build.updates, "updated_at", ServerTimestamp)]
    /\ UNCHANGED <<users, clock, last, scan, documents, blobs, sniff, procs>>

NextBuild ==
    \/ BuildMap
    \/ SkipUpdate
    \/ AddTimestamp

SpecBuild == InitBuild /\ [][NextBuild]_vars

(***************************************************************************)
(* internal/services/user_service.go: the user service over the users      *)
(* collection.  uuid.NewString() is an identifier no record is stored at.  *)
(***************************************************************************)
\* userData of userService.Create, as Set stores it.
UserData(user, id) ==
    Flatten([id |-> id, first_name |-> user.first_name, last_name |-> user.last_name,
             email |-> user.email, phone |-> user.phone,
             firebase_id |-> user.firebase_id,
             address |-> [building_number |-> user.address.building_number,
                          street |-> user.address.street,
                          city |-> user.address.city,
                          postcode |-> user.address.zip_code,
                          country |-> user.address.country],
             created_at |-> ServerTimestamp, updated_at |-> ServerTimestamp])

\* The result of a lookup with the query it sent to the repository.
Looked(r, query, pageSize, calls) ==
    [coll |-> r.coll, item |-> r.item, err |-> r.err, query |-> query,
     pageSize |-> pageSize, calls |-> calls]

\* A lookup that queries the identifier field instead of firebase_id.
UserServiceGetByDocumentID(coll, id, fault) ==
    LET query == << [Path |-> "id", Op |-> "==", Value |-> id] >>
        r == GetByQuery(coll, query, "", 1, fault)
    IN  IF r.err # "" THEN Looked(One(coll, ZeroUser, r.err), query, 1, r.calls)
        ELSE IF Len(r.items) = 0
        THEN Looked(One(coll, ZeroUser, "user not found"), query, 1, r.calls)
        ELSE Looked(One(coll, r.items[1], ""), query, 1, r.calls)

UserServiceGetByID(coll, id, fault) ==
    LET query == << [Path |-> "firebase_id", Op |-> "==", Value |-> id] >>
        r == GetByQuery(coll, query, "", 1, fault)
    IN  IF r.err # "" THEN Looked(One(coll, ZeroUser, r.err), query, 1, r.calls)
        ELSE IF Len(r.items) = 0
        THEN Looked(One(coll, ZeroUser, "user not found"), query, 1, r.calls)
        ELSE Looked(One(coll, r.items[1], ""), query, 1, r.calls)

UserServiceCreate(coll, user, id, now, fault) ==
    LET r == Create(coll, id, UserData(user, id), now, fault)
    IN  One(r.coll, r.item, r.err)

\* The service's Update without the early return on an empty update map.
UserServiceUpdateAlwaysWrites(coll, id, user, now, fault) ==
    LET current == GetByID(coll, id, IF fault = "read" THEN "get" ELSE "")
        updates == buildUpdateMapFromUser(user, FALSE)
    IN  IF current.err # "" THEN One(coll, ZeroUser, current.err)
        ELSE Update(coll, id, Put(updates, "updated_at", ServerTimestamp), now,
                    IF fault = "read" THEN "" ELSE fault)

UserServiceUpdate(coll, id, user, now, fault) ==
    LET current == GetByID(coll, id, IF fault = "read" THEN "get" ELSE "")
        updates == buildUpdateMapFromUser(user, FALSE)
    IN  IF current.err # "" THEN One(coll, ZeroUser, current.err)
        ELSE IF Cardinality(DOMAIN updates) = 0 THEN One(coll, current.item, "")
        ELSE Update(coll, id, Put(updates, "updated_at", ServerTimestamp), now,
                    IF fault = "read" THEN "" ELSE fault)

SvcInputs ==
    {UserWith(S) : S \in {{"updated_at"}, {"phone"}, {"id"},
                          {"address.city", "created_at"}}}

UserGetByID ==
    \E id \in {"f1", "f2", "f3"}, fault \in Faults({"iterate"}) :
        LET r == UserServiceGetByID(users, id, fault)
        IN  /\ last' = [NoCall EXCEPT !.op = "UserGetByID", !.id = id, !.fault = fault,
                            !.pre = users, !.item = r.item, !.err = r.err,
                            !.queries = r.query, !.pageSize = r.pageSize,
                            !.calls = r.calls]
            /\ UNCHANGED <<users, clock, scan, build, documents, blobs, sniff, procs>>

UserCreate ==
    \E user \in SampleUsers, id \in WriteKeys \ DOMAIN users,
       fault \in Faults({"set", "get"}) :
        LET r == UserServiceCreate(users, user, id, clock + 1, fault)
        IN  /\ clock < MaxClock
            /\ users' = r.coll
            /\ clock' = IF fault = "set" THEN clock ELSE clock + 1
            /\ last' = [NoCall EXCEPT !.op = "UserCreate", !.id = id, !.data = user,
                            !.fault = fault, !.pre = users, !.now = clock + 1,
                            !.item = r.item, !.err = r.err]
            /\ UNCHANGED <<scan, build, documents, blobs, sniff, procs>>

UserUpdate ==
    \E id \in WriteKeys, user \in SvcInputs, fault \in Faults({"read", "set", "get"}) :
        LET r == UserServiceUpdate(users, id, user, clock + 1, fault)
        IN  /\ clock < MaxClock
            /\ users' = r.coll
            /\ clock' = IF users' = users THEN clock ELSE clock + 1
            /\ last' = [NoCall EXCEPT !.op = "UserUpdate", !.id = id, !.data = user,
                            !.fault = fault, !.pre = users, !.now = clock + 1,
                            !.item = r.item, !.err = r.err]
            /\ UNCHANGED <<scan, build, documents, blobs, sniff, procs>>

NextSvc ==
    \/ UserGetByID
    \/ UserCreate
    \/ UserUpdate

SpecSvc == Init /\ [][NextSvc]_vars

(***************************************************************************)
(* File types (DetectFileType, GetStandardizedExtension).  A byte is an    *)
(* integer 0..255 and data a sequence of bytes; a text (a file name, an    *)
(* extension) is a sequence of one-character strings, so that its dots,    *)
(* separators and letter case can be looked at.                            *)
(***************************************************************************)
MaxData == 9

PDF == <<37, 80, 68, 70>>                      \* 25 50 44 46
TIFFIntel == <<73, 73, 42, 0>>                 \* 49 49 2A 00
TIFFMotorola == <<77, 77, 0, 42>>              \* 4D 4D 00 2A
PNG == <<137, 80, 78, 71, 13, 10, 26, 10>>     \* 89 50 4E 47 0D 0A 1A 0A
JPEG == <<255, 216, 255>>                      \* FF D8 FF
\* (a one-byte signature: M)
BMPOneByte == <<77>>

BMP == <<66, 77>>                              \* 42 4D

Signatures == <<PDF, TIFFIntel, TIFFMotorola, PNG, JPEG, BMP>>

\* bytes.HasPrefix
HasPrefix(s, prefix) ==
    Len(s) >= Len(prefix) /\ SubSeq(s, 1, Len(prefix)) = prefix

\* A *FileTypeInfo with the error returned beside it (nil info: empty fields).
FileTypeInfo(mime, ext, err) == [MimeType |-> mime, Extension |-> ext, err |-> err]

\* DetectFileType that looks for a signature whatever the length of the data.
DetectFileTypeAnyLength(data) ==
    IF HasPrefix(data, PDF)
        THEN FileTypeInfo("application/pdf", <<".", "p", "d", "f">>, "")
    ELSE IF HasPrefix(data, TIFFIntel)
        THEN FileTypeInfo("image/tiff", <<".", "t", "i", "f", "f">>, "")
    ELSE IF HasPrefix(data, TIFFMotorola)
        THEN FileTypeInfo("image/tiff", <<".", "t", "i", "f", "f">>, "")
    ELSE IF HasPrefix(data, PNG)
        THEN FileTypeInfo("image/png", <<".", "p", "n", "g">>, "")
    ELSE IF HasPrefix(data, JPEG)
        THEN FileTypeInfo("image/jpeg", <<".", "j", "p", "g">>, "")
    ELSE IF HasPrefix(data, BMP)
        THEN FileTypeInfo("image/bmp", <<".", "b", "m", "p">>, "")
    ELSE FileTypeInfo("", <<>>, "ErrUnknownFileType")

DetectFileType(data) ==
    IF Len(data) < 8 THEN FileTypeInfo("", <<>>, "ErrInsufficientData")
    ELSE IF HasPrefix(data, PDF)
        THEN FileTypeInfo("application/pdf", <<".", "p", "d", "f">>, "")
    ELSE IF HasPrefix(data, TIFFIntel)
        THEN FileTypeInfo("image/tiff", <<".", "t", "i", "f", "f">>, "")
    ELSE IF HasPrefix(data, TIFFMotorola)
        THEN FileTypeInfo("image/tiff", <<".", "t", "i", "f", "f">>, "")
    ELSE IF HasPrefix(data, PNG)
        THEN FileTypeInfo("image/png", <<".", "p", "n", "g">>, "")
    ELSE IF HasPrefix(data, JPEG)
        THEN FileTypeInfo("image/jpeg", <<".", "j", "p", "g">>, "")
    ELSE IF HasPrefix(data, BMP)
        THEN FileTypeInfo("image/bmp", <<".", "b", "m", "p">>, "")
    ELSE FileTypeInfo("", <<>>, "ErrUnknownFileType")

Upper ==
    <<"A", "B", "C", "D", "E", "F", "G", "H", "I", "J", "K", "L", "M",
      "N", "O", "P", "Q", "R", "S", "T", "U", "V", "W", "X", "Y", "Z">>

Lower ==
    <<"a", "b", "c", "d", "e", "f", "g", "h", "i", "j", "k", "l", "m",
      "n", "o", "p", "q", "r", "s", "t", "u", "v", "w", "x", "y", "z">>

\* strings.ToLower on ASCII text
ToLower(text) ==
    [i \in 1..Len(text) |->
        IF \E k \in 1..Len(Upper) : Upper[k] = text[i]
        THEN Lower[CHOOSE k \in 1..Len(Upper) : Upper[k] = text[i]]
        ELSE text[i]]

\* filepath.Ext: the suffix that begins at the last dot of the last element
\* of the path, empty when that element has no dot.
Ext(path) ==
    LET dots == {i \in 1..Len(path) :
                    path[i] = "." /\ \A j \in i..Len(path) : path[j] # "/"}
    IN  IF dots = {} THEN <<>>
        ELSE SubSeq(path, CHOOSE i \in dots : \A j \in dots : j <= i, Len(path))

\* The text as one string.
RECURSIVE Str(_)
Str(text) == IF Len(text) = 0 THEN "" ELSE text[1] \o Str(Tail(text))

\* GetStandardizedExtension that compares the extension as it was written.
GetStandardizedExtensionCaseSensitive(filename) ==
    LET ext == Ext(filename)
    IN  IF Str(ext) \in {".jpeg", ".jpe", ".jif", ".jfif"} THEN <<".", "j", "p", "g">>
        ELSE IF Str(ext) = ".tif" THEN <<".", "t", "i", "f", "f">>
        ELSE IF Str(ext) \in {".pdf", ".png", ".jpg", ".tiff", ".bmp"} THEN ext
        ELSE <<".", "b", "i", "n">>

GetStandardizedExtension(filename) ==
    LET ext == ToLower(Ext(filename))
    IN  IF Str(ext) \in {".jpeg", ".jpe", ".jif", ".jfif"} THEN <<".", "j", "p", "g">>
        ELSE IF Str(ext) = ".tif" THEN <<".", "t", "i", "f", "f">>
        ELSE IF Str(ext) \in {".pdf", ".png", ".jpg", ".tiff", ".bmp"} THEN ext
        ELSE <<".", "b", "i", "n">>

\* The inputs of DetectFileType: every sequence of at most MaxData bytes whose
\* byte at each position is one that some signature has there, or Other, a
\* byte of no signature; and "%PDF-1.4".
Other == 45

ByteChoices(i) ==
    {Signatures[k][i] : k \in {n \in 1..Len(Signatures) : Len(Signatures[n]) >= i}}
        \cup {Other}

RECURSIVE DataOfLen(_)
DataOfLen(n) ==
    IF n = 0 THEN {<<>>}
    ELSE {Append(d, b) : d \in DataOfLen(n - 1), b \in ByteChoices(n)}

SampleData(max) ==
    UNION {DataOfLen(n) : n \in 0..max} \cup {<<37, 80, 68, 70, 45, 49, 46, 52>>}

\* The inputs of GetStandardizedExtension: the extensions the function names
\* and some it does not, in every mix of upper and lower case, alone and as
\* the end of a file name or a path.
Words ==
    {<<"j", "p", "e", "g">>, <<"j", "p", "e">>, <<"j", "i", "f">>,
     <<"j", "f", "i", "f">>, <<"t", "i", "f">>, <<"p", "d", "f">>,
     <<"p", "n", "g">>, <<"j", "p", "g">>, <<"t", "i", "f", "f">>,
     <<"b", "m", "p">>, <<"d", "o", "c", "x">>, <<"b", "i", "n">>, <<"g", "z">>,
     <<>>}

ToUpper(c) == Upper[CHOOSE k \in 1..Len(Lower) : Lower[k] = c]

RECURSIVE Cased(_)
Cased(word) ==
    IF Len(word) = 0 THEN {<<>>}
    ELSE {<<c>> \o t : c \in {word[1], ToUpper(word[1])}, t \in Cased(Tail(word))}

Stems ==
    {<<>>, <<".">>, <<"a", ".">>, <<"a", ".", "b", ".">>, <<"d", ".", "e", "/">>,
     <<"d", "/", "a", ".">>}

SampleNames == {s \o w : s \in Stems, w \in UNION {Cased(word) : word \in Words}}

InitSniff ==
    /\ users = EmptyFields
    /\ clock = 0
    /\ last = NoCall
    /\ scan = NoScan
    /\ build = NoBuild
    /\ documents = EmptyFields
    /\ blobs = EmptyFields
    /\ \/ \E d \in SampleData(MaxData) : sniff = [op |-> "data", data |-> d]
       \/ \E n \in SampleNames : sniff = [op |-> "name", name |-> n]
    /\ procs = NoProcs

SniffData ==
    /\ sniff.op = "data"
    /\ sniff' = [op |-> "DetectFileType", data |-> sniff.data,
                 info |-> DetectFileType(sniff.data)]
    /\ UNCHANGED <<users, clock, last, scan, build, documents, blobs, procs>>

StandardizeName ==
    /\ sniff.op = "name"
    /\ sniff' = [op |-> "GetStandardizedExtension", name |-> sniff.name,
                 ext |-> GetStandardizedExtension(sniff.name)]
    /\ UNCHANGED <<users, clock, last, scan, build, documents, blobs, procs>>

NextSniff ==
    \/ SniffData
    \/ StandardizeName

SpecSniff == InitSniff /\ [][NextSniff]_vars

(***************************************************************************)
(* The blob store (pkg/gcs/gcs.go).  The bucket is a function from object  *)
(* names to objects; an object name is a text whose tokens are characters  *)
(* and opaque identifiers (owner, document and file names, which hold      *)
(* neither dots nor separators).                                           *)
(***************************************************************************)
BucketName == "documents-bucket"

Object(data, contentType, now) ==
    [data |-> data, Size |-> Len(data), ContentType |-> contentType, Updated |-> now]

FileInfo(path, size, contentType, lastModified, bucket) ==
    [Path |-> path, Size |-> size, ContentType |-> contentType,
     LastModified |-> lastModified, Bucket |-> bucket]

\* The nil *FileInfo.
NoFileInfo == FileInfo(<<>>, 0, "", 0, "")

Stored(objs, info, err, calls) ==
    [objs |-> objs, info |-> info, err |-> err, calls |-> calls]

\* The bucket after the writer committed data under path.
Commit(objs, path, data, contentType, now) ==
    [p \in DOMAIN objs \cup {path} |->
        IF p = path THEN Object(data, contentType, now) ELSE objs[p]]

\* Upload that returns the copy error without closing the writer.
UploadLeavesWriterOpen(objs, path, content, contentType, now, faults, taken) ==
    LET full == Commit(objs, path, content, contentType, now)
    IN  IF "copy" \in faults
        THEN Stored(objs, NoFileInfo, "failed to copy content to GCS", <<"Copy">>)
        ELSE IF "close" \in faults
        THEN Stored(objs, NoFileInfo, "failed to close writer", <<"Copy", "Close">>)
        ELSE IF "attrs" \in faults
        THEN Stored(full, NoFileInfo, "failed to get object attributes",
                    <<"Copy", "Close", "Attrs">>)
        ELSE Stored(full,
                    FileInfo(path, full[path].Size, full[path].ContentType,
                             full[path].Updated, BucketName),
                    "", <<"Copy", "Close", "Attrs">>)

\* GCSStorage.Upload.  faults names the steps that fail; taken is the number
\* of bytes the writer had accepted when the copy failed.  Closing the
\* writer commits what it accepted, a failed close commits nothing.
Upload(objs, path, content, contentType, now, faults, taken) ==
    LET full == Commit(objs, path, content, contentType, now)
        part == Commit(objs, path, SubSeq(content, 1, taken), contentType, now)
    IN  IF "copy" \in faults
        THEN IF "close" \in faults
             THEN Stored(objs, NoFileInfo, "failed to close writer after error",
                         <<"Copy", "Close">>)
             ELSE Stored(part, NoFileInfo, "failed to copy content to GCS",
                         <<"Copy", "Close">>)
        ELSE IF "close" \in faults
        THEN Stored(objs, NoFileInfo, "failed to close writer", <<"Copy", "Close">>)
        ELSE IF "attrs" \in faults
        THEN Stored(full, NoFileInfo, "failed to get object attributes",
                    <<"Copy", "Close", "Attrs">>)
        ELSE Stored(full,
                    FileInfo(path, full[path].Size, full[path].ContentType,
                             full[path].Updated, BucketName),
                    "", <<"Copy", "Close", "Attrs">>)

\* GCSStorage.Download: the content of the object behind the reader.
Download(objs, path, fault) ==
    IF fault = "read" \/ path \notin DOMAIN objs
    THEN [data |-> <<>>, err |-> "failed to create reader"]
    ELSE [data |-> objs[path].data, err |-> ""]

\* GCSStorage.Delete: deleting an object that does not exist is an error.
StorageDelete(objs, path, fault) ==
    IF fault = "delete" \/ path \notin DOMAIN objs
    THEN [objs |-> objs, err |-> "failed to delete object"]
    ELSE [objs |-> [p \in DOMAIN objs \ {path} |-> objs[p]], err |-> ""]

\* The order of object names in a listing: the tokens in the order of their
\* first characters.
Collation ==
    <<".", "/", "b", "c", "d", "e", "f", "g", "i", "j", "k1", "k2", "k3", "k4",
      "m", "n", "n1", "n2", "n3", "n4", "o", "p", "s", "t", "u", "u1", "u2", "x">>

TokenRank(t) == CHOOSE i \in 1..Len(Collation) : Collation[i] = t

RECURSIVE NameLess(_, _)
NameLess(a, b) ==
    IF Len(b) = 0 THEN FALSE
    ELSE IF Len(a) = 0 THEN TRUE
    ELSE IF a[1] = b[1] THEN NameLess(Tail(a), Tail(b))
    ELSE TokenRank(a[1]) < TokenRank(b[1])

RECURSIVE SortNames(_)
SortNames(S) ==
    IF S = {} THEN <<>>
    ELSE LET first == CHOOSE a \in S : \A b \in S \ {a} : NameLess(a, b)
         IN  <<first>> \o SortNames(S \ {first})

\* The FileInfo values List appends: built without the Bucket field, which
\* keeps its zero value.
ListEntry(objs, path) ==
    FileInfo(path, objs[path].Size, objs[path].ContentType, objs[path].Updated, "")

\* GCSStorage.List
List(objs, prefix, fault) ==
    LET names == SortNames({p \in DOMAIN objs : HasPrefix(p, prefix)})
    IN  IF fault = "iterate"
        THEN [files |-> <<>>, err |-> "error iterating through objects"]
        ELSE [files |-> [i \in 1..Len(names) |-> ListEntry(objs, names[i])], err |-> ""]

\* fmt.Sprintf("documents/%s/%s.%s", dir, name, ext)
Sprintf(dir, name, ext) ==
    <<"d", "o", "c", "u", "m", "e", "n", "t", "s", "/", dir, "/", name, ".">> \o ext

\* Inputs of the blob store's calls.
PNGData == PNG \o <<0>>
PDFData == <<37, 80, 68, 70, 45, 49, 46, 52>>

SampleUploads ==
    {[content |-> PNGData, contentType |-> "image/png"],
     [content |-> PDFData, contentType |-> "application/pdf"]}

SamplePaths ==
    {Sprintf("u1", "n1", <<"p", "n", "g">>), Sprintf("u2", "n2", <<"p", "d", "f">>)}

SamplePrefixes ==
    {<<>>, <<"d", "o", "c">>, SubSeq(Sprintf("u1", "n1", <<>>), 1, 12), <<"x">>}

UploadSteps == {"copy", "close", "attrs"}

NoBlobCall ==
    [op |-> "", path |-> <<>>, faults |-> {}, info |-> NoFileInfo, files |-> <<>>,
     data |-> <<>>, err |-> "", calls |-> <<>>]

InitBlob ==
    /\ users = EmptyFields
    /\ clock = 0
    /\ last = NoBlobCall
    /\ scan = NoScan
    /\ build = NoBuild
    /\ documents = EmptyFields
    /\ blobs = EmptyFields
    /\ sniff = NoSniff
    /\ procs = NoProcs

StorageUpload ==
    \E path \in SamplePaths, up \in SampleUploads, faults \in SUBSET UploadSteps :
        LET r == Upload(blobs, path, up.content, up.contentType, clock + 1, faults,
                        Len(up.content) \div 2)
        IN  /\ clock < MaxClock
            /\ blobs' = r.objs
            /\ clock' = IF blobs' = blobs THEN clock ELSE clock + 1
            /\ last' = [NoBlobCall EXCEPT !.op = "Upload", !.path = path,
                            !.faults = faults, !.info = r.info, !.err = r.err,
                            !.calls = r.calls]
            /\ UNCHANGED <<users, scan, build, documents, sniff, procs>>

StorageDownload ==
    \E path \in SamplePaths, fault \in Faults({"read"}) :
        LET r == Download(blobs, path, fault)
        IN  /\ last' = [NoBlobCall EXCEPT !.op = "Download", !.path = path,
                            !.faults = {fault} \ {""}, !.data = r.data, !.err = r.err]
            /\ UNCHANGED <<users, clock, scan, build, documents, blobs, sniff, procs>>

StorageDeleteObject ==
    \E path \in SamplePaths, fault \in Faults({"delete"}) :
        LET r == StorageDelete(blobs, path, fault)
        IN  /\ blobs' = r.objs
            /\ last' = [NoBlobCall EXCEPT !.op = "Delete", !.path = path,
                            !.faults = {fault} \ {""}, !.err = r.err]
            /\ UNCHANGED <<users, clock, scan, build, documents, sniff, procs>>

StorageList ==
    \E prefix \in SamplePrefixes, fault \in Faults({"iterate"}) :
        LET r == List(blobs, prefix, fault)
        IN  /\ last' = [NoBlobCall EXCEPT !.op = "List", !.path = prefix,
                            !.faults = {fault} \ {""}, !.files = r.files, !.err = r.err]
            /\ UNCHANGED <<users, clock, scan, build, documents, blobs, sniff, procs>>

NextBlob ==
    \/ StorageUpload
    \/ StorageDownload
    \/ StorageDeleteObject
    \/ StorageList

SpecBlob == InitBlob /\ [][NextBlob]_vars

(***************************************************************************)
(* The document service (internal/services/document_service.go) over the   *)
(* documents collection and the blob store.                                *)
(***************************************************************************)
MaxNames == 3
MaxDocOps == 2

DocumentTags ==
    {"id", "user_id", "name", "size", "type", "content_type", "path", "bucket",
     "created_at", "updated_at"}

ZeroDocument ==
    [id |-> "", user_id |-> "", name |-> "", size |-> 0, type |-> "",
     content_type |-> "", path |-> <<>>, bucket |-> "", created_at |-> 0,
     updated_at |-> 0]

\* doc.DataTo(&data) into a zero-initialised models.Document
DocumentDataTo(doc) ==
    [p \in DocumentTags |-> IF p \in DOMAIN doc THEN doc[p] ELSE ZeroDocument[p]]

\* The repository instantiated at models.Document: the effect of a call on
\* the collection and its error are those of the generic repository, the
\* record it returns is decoded into a models.Document.
AsDocument(r, id) ==
    One(r.coll, IF r.err = "" THEN DocumentDataTo(r.coll[id]) ELSE ZeroDocument, r.err)

\* What a call of the document service leaves and returns, with the calls it
\* made to the blob store and the repository, in order.
Done(docs, objs, item, err, calls) ==
    [docs |-> docs, objs |-> objs, item |-> item, err |-> err, calls |-> calls]

DocumentServiceGetByID(docs, objs, id, fault) ==
    LET r == AsDocument(GetByID(docs, id, fault), id)
    IN  Done(docs, objs, r.item, r.err, <<"db.GetByID">>)

\* Create that removes the uploaded object when the record cannot be written.
DocumentServiceCreateCleansUp(docs, objs, userID, documentType, content, documentID, documentName, now, faults, taken) ==
    LET fileExtension == DetectFileType(content)
        ext == GetStandardizedExtension(fileExtension.Extension)
        path == Sprintf(userID, documentName, ext)
        up == Upload(objs, path, content, fileExtension.MimeType, now,
                     faults \cap UploadSteps, taken)
        document ==
            [id |-> documentID, user_id |-> userID, name |-> documentName,
             size |-> up.info.Size, type |-> documentType,
             content_type |-> fileExtension.MimeType, path |-> path,
             bucket |-> up.info.Bucket, created_at |-> ServerTimestamp,
             updated_at |-> ServerTimestamp]
        cr == AsDocument(Create(docs, documentID, document, now,
                                IF "set" \in faults THEN "set"
                                ELSE IF "get" \in faults THEN "get" ELSE ""),
                         documentID)
    IN  IF fileExtension.err # ""
        THEN Done(docs, objs, ZeroDocument, fileExtension.err, <<>>)
        ELSE IF up.err # ""
        THEN Done(docs, up.objs, ZeroDocument, up.err, <<"storage.Upload">>)
        ELSE IF cr.err # ""
        THEN Done(cr.coll, StorageDelete(up.objs, path, "").objs, ZeroDocument, cr.err,
                  <<"storage.Upload", "db.Create", "storage.Delete">>)
        ELSE Done(cr.coll, up.objs, cr.item, "", <<"storage.Upload", "db.Create">>)

\* documentService.Create; documentID and documentName are the two values
\* uuid.NewString() returned.
DocumentServiceCreate(docs, objs, userID, documentType, content, documentID, documentName, now, faults, taken) ==
    LET fileExtension == DetectFileType(content)
        ext == GetStandardizedExtension(fileExtension.Extension)
        path == Sprintf(userID, documentName, ext)
        up == Upload(objs, path, content, fileExtension.MimeType, now,
                     faults \cap UploadSteps, taken)
        document ==
            [id |-> documentID, user_id |-> userID, name |-> documentName,
             size |-> up.info.Size, type |-> documentType,
             content_type |-> fileExtension.MimeType, path |-> path,
             bucket |-> up.info.Bucket, created_at |-> ServerTimestamp,
             updated_at |-> ServerTimestamp]
        cr == AsDocument(Create(docs, documentID, document, now,
                                IF "set" \in faults THEN "set"
                                ELSE IF "get" \in faults THEN "get" ELSE ""),
                         documentID)
    IN  IF fileExtension.err # ""
        THEN Done(docs, objs, ZeroDocument, fileExtension.err, <<>>)
        ELSE IF up.err # ""
        THEN Done(docs, up.objs, ZeroDocument, up.err, <<"storage.Upload">>)
        ELSE IF cr.err # ""
        THEN Done(cr.coll, up.objs, ZeroDocument, cr.err, <<"storage.Upload", "db.Create">>)
        ELSE Done(cr.coll, up.objs, cr.item, "", <<"storage.Upload", "db.Create">>)

\* Update that removes the object the record pointed to before.
DocumentServiceUpdateDropsOld(docs, objs, id, content, documentName, now, faults, taken) ==
    LET fileExtension == DetectFileType(content)
        ext == GetStandardizedExtension(fileExtension.Extension)
        path == Sprintf(id, documentName, ext)
        up == Upload(objs, path, content, fileExtension.MimeType, now,
                     faults \cap UploadSteps, taken)
        document ==
            [name |-> documentName, size |-> up.info.Size,
             content_type |-> fileExtension.MimeType, path |-> path,
             updated_at |-> ServerTimestamp]
        upd == AsDocument(Update(docs, id, document, now,
                                 IF "set" \in faults THEN "set"
                                 ELSE IF "get" \in faults THEN "get" ELSE ""),
                          id)
        old == IF id \in DOMAIN docs /\ "path" \in DOMAIN docs[id]
               THEN docs[id]["path"] ELSE <<>>
    IN  IF fileExtension.err # ""
        THEN Done(docs, objs, ZeroDocument, fileExtension.err, <<>>)
        ELSE IF up.err # ""
        THEN Done(docs, up.objs, ZeroDocument, up.err, <<"storage.Upload">>)
        ELSE IF upd.err # ""
        THEN Done(upd.coll, up.objs, ZeroDocument, upd.err, <<"storage.Upload", "db.Update">>)
        ELSE Done(upd.coll, StorageDelete(up.objs, old, "").objs, upd.item, "",
                  <<"storage.Upload", "db.Update", "storage.Delete">>)

\* documentService.Update
DocumentServiceUpdate(docs, objs, id, content, documentName, now, faults, taken) ==
    LET fileExtension == DetectFileType(content)
        ext == GetStandardizedExtension(fileExtension.Extension)
        path == Sprintf(id, documentName, ext)
        up == Upload(objs, path, content, fileExtension.MimeType, now,
                     faults \cap UploadSteps, taken)
        document ==
            [name |-> documentName, size |-> up.info.Size,
             content_type |-> fileExtension.MimeType, path |-> path,
             updated_at |-> ServerTimestamp]
        upd == AsDocument(Update(docs, id, document, now,
                                 IF "set" \in faults THEN "set"
                                 ELSE IF "get" \in faults THEN "get" ELSE ""),
                          id)
    IN  IF fileExtension.err # ""
        THEN Done(docs, objs, ZeroDocument, fileExtension.err, <<>>)
        ELSE IF up.err # ""
        THEN Done(docs, up.objs, ZeroDocument, up.err, <<"storage.Upload">>)
        ELSE IF upd.err # ""
        THEN Done(upd.coll, up.objs, ZeroDocument, upd.err, <<"storage.Upload", "db.Update">>)
        ELSE Done(upd.coll, up.objs, upd.item, "", <<"storage.Upload", "db.Update">>)

\* Delete that removes the record before the object.
DocumentServiceDeleteRecordFirst(docs, objs, id, fault) ==
    LET got == DocumentServiceGetByID(docs, objs, id, IF fault = "get" THEN "get" ELSE "")
        dbDel == Delete(docs, id, IF fault = "delete" THEN "delete" ELSE "")
        stDel == StorageDelete(objs, got.item.path, IF fault = "blob" THEN "delete" ELSE "")
    IN  IF got.err # ""
        THEN Done(docs, objs, ZeroDocument, got.err, <<"db.GetByID">>)
        ELSE IF dbDel.err # ""
        THEN Done(docs, objs, ZeroDocument, dbDel.err, <<"db.GetByID", "db.Delete">>)
        ELSE IF stDel.err # ""
        THEN Done(dbDel.coll, objs, ZeroDocument, stDel.err,
                  <<"db.GetByID", "db.Delete", "storage.Delete">>)
        ELSE Done(dbDel.coll, stDel.objs, ZeroDocument, "",
                  <<"db.GetByID", "db.Delete", "storage.Delete">>)

\* documentService.Delete
DocumentServiceDelete(docs, objs, id, fault) ==
    LET got == DocumentServiceGetByID(docs, objs, id, IF fault = "get" THEN "get" ELSE "")
        stDel == StorageDelete(objs, got.item.path, IF fault = "blob" THEN "delete" ELSE "")
        dbDel == Delete(docs, id, IF fault = "delete" THEN "delete" ELSE "")
    IN  IF got.err # ""
        THEN Done(docs, objs, ZeroDocument, got.err, <<"db.GetByID">>)
        ELSE IF stDel.err # ""
        THEN Done(docs, objs, ZeroDocument, stDel.err, <<"db.GetByID", "storage.Delete">>)
        ELSE IF dbDel.err # ""
        THEN Done(docs, stDel.objs, ZeroDocument, dbDel.err,
                  <<"db.GetByID", "storage.Delete", "db.Delete">>)
        ELSE Done(dbDel.coll, stDel.objs, ZeroDocument, "",
                  <<"db.GetByID", "storage.Delete", "db.Delete">>)

\* Inputs of the document service's calls.
SampleOwners ==
    {[userID |-> "u1", documentType |-> "passport"],
     [userID |-> "u2", documentType |-> "id_card"]}

DocumentIDs == {"k1", "k2"}

ShortData == <<37, 80, 68, 70>>

SampleContents == {PNGData, PDFData, ShortData}

Names == {"n" \o ToString(i) : i \in 1..MaxNames}

\* The names that an object or a record already carries.
UsedNames(docs, objs) ==
    {n \in Names :
        \/ \E p \in DOMAIN objs : \E i \in 1..Len(p) : p[i] = n
        \/ \E k \in DOMAIN docs : "name" \in DOMAIN docs[k] /\ docs[k]["name"] = n}

\* uuid.NewString(): a name that is not in use.
FreshNames(docs, objs) ==
    LET free == Names \ UsedNames(docs, objs)
    IN  IF free = {} THEN {}
        ELSE {CHOOSE n \in free : \A m \in free : TokenRank(n) <= TokenRank(m)}

\* uuid.NewString(): an identifier that no record is stored under.
FreshIDs(docs) ==
    LET free == DocumentIDs \ DOMAIN docs
    IN  IF free = {} THEN {}
        ELSE {CHOOSE k \in free : \A m \in free : Rank(k) <= Rank(m)}

CreateFaults == {{}, {"copy"}, {"copy", "close"}, {"close"}, {"attrs"}, {"set"}, {"get"}}

NoDocCall ==
    [op |-> "", id |-> "", userID |-> "", type |-> "", content |-> <<>>, name |-> "",
     faults |-> {}, docs |-> EmptyFields, objs |-> EmptyFields, item |-> ZeroDocument,
     err |-> "", calls |-> <<>>]

InitDoc ==
    /\ users = EmptyFields
    /\ clock = 0
    /\ last = NoDocCall
    /\ scan = NoScan
    /\ build = NoBuild
    /\ documents = EmptyFields
    /\ blobs = EmptyFields
    /\ sniff = NoSniff
    /\ procs = NoProcs

DocumentGetByID ==
    \E id \in DocumentIDs, fault \in Faults({"get"}) :
        LET r == DocumentServiceGetByID(documents, blobs, id, fault)
        IN  /\ clock < MaxDocOps
            /\ clock' = clock + 1
            /\ last' = [NoDocCall EXCEPT !.op = "GetByID", !.id = id,
                            !.faults = {fault} \ {""}, !.docs = documents,
                            !.objs = blobs, !.item = r.item, !.err = r.err,
                            !.calls = r.calls]
            /\ UNCHANGED <<users, scan, build, documents, blobs, sniff, procs>>

DocumentCreate ==
    \E owner \in SampleOwners, content \in SampleContents,
       documentID \in FreshIDs(documents),
       documentName \in FreshNames(documents, blobs), faults \in CreateFaults :
        LET userID == owner.userID
            documentType == owner.documentType
            r == DocumentServiceCreate(documents, blobs, userID, documentType, content,
                                       documentID, documentName, clock + 1, faults,
                                       Len(content) \div 2)
        IN  /\ clock < MaxDocOps
            /\ documents' = r.docs
            /\ blobs' = r.objs
            /\ clock' = clock + 1
            /\ last' = [NoDocCall EXCEPT !.op = "Create", !.id = documentID,
                            !.userID = userID, !.type = documentType,
                            !.content = content, !.name = documentName,
                            !.faults = faults, !.docs = documents, !.objs = blobs,
                            !.item = r.item, !.err = r.err, !.calls = r.calls]
            /\ UNCHANGED <<users, scan, build, sniff, procs>>

DocumentUpdate ==
    \E id \in DocumentIDs, content \in SampleContents,
       documentName \in FreshNames(documents, blobs), faults \in CreateFaults :
        LET r == DocumentServiceUpdate(documents, blobs, id, content, documentName,
                                       clock + 1, faults, Len(content) \div 2)
        IN  /\ clock < MaxDocOps
            /\ documents' = r.docs
            /\ blobs' = r.objs
            /\ clock' = clock + 1
            /\ last' = [NoDocCall EXCEPT !.op = "Update", !.id = id,
                            !.content = content, !.name = documentName,
                            !.faults = faults, !.docs = documents, !.objs = blobs,
                            !.item = r.item, !.err = r.err, !.calls = r.calls]
            /\ UNCHANGED <<users, scan, build, sniff, procs>>

DocumentDelete ==
    \E id \in DocumentIDs, fault \in Faults({"get", "blob", "delete"}) :
        LET r == DocumentServiceDelete(documents, blobs, id, fault)
        IN  /\ clock < MaxDocOps
            /\ documents' = r.docs
            /\ blobs' = r.objs
            /\ clock' = clock + 1
            /\ last' = [NoDocCall EXCEPT !.op = "Delete", !.id = id,
                            !.faults = {fault} \ {""}, !.docs = documents,
                            !.objs = blobs, !.err = r.err, !.calls = r.calls]
            /\ UNCHANGED <<users, scan, build, sniff, procs>>

NextDoc ==
    \/ DocumentGetByID
    \/ DocumentCreate
    \/ DocumentUpdate
    \/ DocumentDelete

SpecDoc == InitDoc /\ [][NextDoc]_vars

(***************************************************************************)
(* The document handlers (internal/handlers/document_handler.go): what a   *)
(* request does to the stores and the status it is answered with.          *)
(***************************************************************************)
\* strings.ToUpper on ASCII text
StringsToUpper(text) ==
    [i \in 1..Len(text) |->
        IF \E k \in 1..Len(Lower) : Lower[k] = text[i]
        THEN Upper[CHOOSE k \in 1..Len(Lower) : Lower[k] = text[i]]
        ELSE text[i]]

\* models.ParseDocumentType
ParseDocumentType(docType) ==
    LET upper == Str(StringsToUpper(docType))
    IN  IF upper = "PASSPORT" THEN [type |-> "passport", err |-> ""]
        ELSE IF upper = "ID_CARD" THEN [type |-> "id_card", err |-> ""]
        ELSE IF upper = "DRIVER_LICENSE" THEN [type |-> "driver_licence", err |-> ""]
        ELSE [type |-> "", err |-> "unknown document type"]

\* What the handler leaves in the stores and answers.
Response(r, status) ==
    [docs |-> r.docs, objs |-> r.objs, item |-> r.item, err |-> r.err, status |-> status]

\* The stores untouched, for a request the handler turns down itself.
Refused(docs, objs, err) == Done(docs, objs, ZeroDocument, err, <<>>)

DocumentHandlerGetByID(docs, objs, id, fault) ==
    LET r == DocumentServiceGetByID(docs, objs, id, fault)
    IN  IF r.err # "" THEN Response(r, 500) ELSE Response(r, 200)

DocumentHandlerCreate(docs, objs, userID, documentTypeStr, hasFile, content, documentID, documentName, now, faults, taken) ==
    LET parsed == ParseDocumentType(documentTypeStr)
        r == DocumentServiceCreate(docs, objs, userID, parsed.type, content, documentID,
                                   documentName, now, faults, taken)
    IN  IF userID = "" THEN Response(Refused(docs, objs, "user_id is required"), 400)
        ELSE IF parsed.err # "" THEN Response(Refused(docs, objs, parsed.err), 400)
        ELSE IF ~hasFile THEN Response(Refused(docs, objs, "http: no such file"), 400)
        ELSE IF r.err # "" THEN Response(r, 500)
        ELSE Response(r, 202)

DocumentHandlerUpdate(docs, objs, id, hasFile, content, documentName, now, faults, taken) ==
    LET r == DocumentServiceUpdate(docs, objs, id, content, documentName, now, faults, taken)
    IN  IF ~hasFile THEN Response(Refused(docs, objs, "http: no such file"), 400)
        ELSE IF r.err # "" THEN Response(r, 500)
        ELSE Response(r, 200)

DocumentHandlerDelete(docs, objs, id, fault) ==
    LET r == DocumentServiceDelete(docs, objs, id, fault)
    IN  IF r.err # "" THEN Response(r, 500) ELSE Response(r, 200)

\* The document_type form values of the requests.
SampleTypeNames ==
    {<<"p", "a", "s", "s", "p", "o", "r", "t">>, <<"I", "D", "_", "C", "A", "R", "D">>,
     <<"o", "t", "h", "e", "r">>, <<>>}

NoRequest ==
    [op |-> "", id |-> "", userID |-> "", type |-> <<>>, hasFile |-> FALSE,
     content |-> <<>>, faults |-> {}, docs |-> EmptyFields, objs |-> EmptyFields,
     item |-> ZeroDocument, err |-> "", status |-> 0]

InitHttp ==
    /\ users = EmptyFields
    /\ clock = 0
    /\ last = NoRequest
    /\ scan = NoScan
    /\ build = NoBuild
    /\ documents = EmptyFields
    /\ blobs = EmptyFields
    /\ sniff = NoSniff
    /\ procs = NoProcs

HandleGetByID ==
    \E id \in DocumentIDs, fault \in Faults({"get"}) :
        LET r == DocumentHandlerGetByID(documents, blobs, id, fault)
        IN  /\ clock < MaxDocOps
            /\ clock' = clock + 1
            /\ last' = [NoRequest EXCEPT !.op = "GetByID", !.id = id,
                            !.faults = {fault} \ {""}, !.docs = documents,
                            !.objs = blobs, !.item = r.item, !.err = r.err,
                            !.status = r.status]
            /\ UNCHANGED <<users, scan, build, documents, blobs, sniff, procs>>

HandleCreate ==
    \E userID \in {"", "u1"}, type \in SampleTypeNames, hasFile \in BOOLEAN,
       content \in {PNGData, ShortData}, documentID \in FreshIDs(documents),
       documentName \in FreshNames(documents, blobs), faults \in {{}, {"set"}} :
        LET r == DocumentHandlerCreate(documents, blobs, userID, type, hasFile, content,
                                       documentID, documentName, clock + 1, faults,
                                       Len(content) \div 2)
        IN  /\ clock < MaxDocOps
            /\ documents' = r.docs
            /\ blobs' = r.objs
            /\ clock' = clock + 1
            /\ last' = [NoRequest EXCEPT !.op = "Create", !.id = documentID,
                            !.userID = userID, !.type = type, !.hasFile = hasFile,
                            !.content = content, !.faults = faults,
                            !.docs = documents, !.objs = blobs, !.item = r.item,
                            !.err = r.err, !.status = r.status]
            /\ UNCHANGED <<users, scan, build, sniff, procs>>

HandleUpdate ==
    \E id \in DocumentIDs, hasFile \in BOOLEAN, content \in {PDFData, ShortData},
       documentName \in FreshNames(documents, blobs), faults \in {{}, {"attrs"}} :
        LET r == DocumentHandlerUpdate(documents, blobs, id, hasFile, content,
                                       documentName, clock + 1, faults,
                                       Len(content) \div 2)
        IN  /\ clock < MaxDocOps
            /\ documents' = r.docs
            /\ blobs' = r.objs
            /\ clock' = clock + 1
            /\ last' = [NoRequest EXCEPT !.op = "Update", !.id = id,
                            !.hasFile = hasFile, !.content = content,
                            !.faults = faults, !.docs = documents, !.objs = blobs,
                            !.item = r.item, !.err = r.err, !.status = r.status]
            /\ UNCHANGED <<users, scan, build, sniff, procs>>

HandleDelete ==
    \E id \in DocumentIDs, fault \in Faults({"get", "blob", "delete"}) :
        LET r == DocumentHandlerDelete(documents, blobs, id, fault)
        IN  /\ clock < MaxDocOps
            /\ documents' = r.docs
            /\ blobs' = r.objs
            /\ clock' = clock + 1
            /\ last' = [NoRequest EXCEPT !.op = "Delete", !.id = id,
                            !.faults = {fault} \ {""}, !.docs = documents,
                            !.objs = blobs, !.err = r.err, !.status = r.status]
            /\ UNCHANGED <<users, scan, build, sniff, procs>>

NextHttp ==
    \/ HandleGetByID
    \/ HandleCreate
    \/ HandleUpdate
    \/ HandleDelete

SpecHttp == InitHttp /\ [][NextHttp]_vars

(***************************************************************************)
(* Listing the documents of a user: internal/services/document_service.go  *)
(* GetAllByUserID and its handler, over collections seeded with up to      *)
(* GetAllByUserIDPageSize + MaxOver documents of the user asked for.        *)
(***************************************************************************)

\* What GetAllByUserID returns: the documents and the error.
Listed(items, err) == [items |-> items, err |-> err]

DecodeDocuments(r) == [i \in 1..Len(r.refs) |-> DocumentDataTo(r.coll[r.refs[i]])]

DocumentServiceGetAllByUserID(docs, userID, fault) ==
    LET query == <<[Path |-> "user_id", Op |-> "==", Value |-> userID]>>
        r == GetByQuery(docs, query, "", GetAllByUserIDPageSize,
                        IF fault = "query" THEN "iterate" ELSE "")
    IN  IF r.err # "" THEN Listed(<<>>, r.err)
        ELSE Listed(DecodeDocuments(r), "")

DocumentHandlerGetAllByUserID(docs, userID, fault) ==
    LET r == DocumentServiceGetAllByUserID(docs, userID, fault)
    IN  [items |-> r.items, err |-> r.err, status |-> IF r.err # "" THEN 500 ELSE 200]

\* The record Create leaves for the i-th document of a collection.
SeedDocument(i, owner) ==
    [id |-> KeyOf(i), user_id |-> owner, name |-> KeyOf(i), size |-> Len(PNGData),
     type |-> "passport", content_type |-> DetectFileType(PNGData).MimeType,
     path |-> Sprintf(owner, KeyOf(i),
                      GetStandardizedExtension(DetectFileType(PNGData).Extension)),
     bucket |-> BucketName,
     created_at |-> 0, updated_at |-> 0]

\* A collection of own documents of u1 and other documents of u2, the
\* documents of u2 created before or after those of u1.
SeedCollection(own, other, othersFirst) ==
    [id \in {KeyOf(i) : i \in 1..(own + other)} |->
        LET i == Rank(id)
        IN  IF othersFirst
            THEN SeedDocument(i, IF i <= other THEN "u2" ELSE "u1")
            ELSE SeedDocument(i, IF i <= own THEN "u1" ELSE "u2")]

OwnedCounts ==
    (0..MaxOver) \cup
    ((GetAllByUserIDPageSize - MaxOver)..(GetAllByUserIDPageSize + MaxOver))

NoListing == [op |-> "", userID |-> "", fault |-> "", items |-> <<>>, err |-> "", status |-> 0]

InitList ==
    /\ users = EmptyFields
    /\ clock = 0
    /\ last = NoListing
    /\ scan = NoScan
    /\ build = NoBuild
    /\ \E own \in OwnedCounts, other \in 0..MaxOver, othersFirst \in BOOLEAN :
           documents = SeedCollection(own, other, othersFirst)
    /\ blobs = EmptyFields
    /\ sniff = NoSniff
    /\ procs = NoProcs

HandleGetAllByUserID ==
    \E userID \in {"u1", "u2", "u3"}, fault \in Faults({"query"}) :
        LET r == DocumentHandlerGetAllByUserID(documents, userID, fault)
        IN  /\ last' = [op |-> "GetAllByUserID", userID |-> userID, fault |-> fault,
                        items |-> r.items, err |-> r.err, status |-> r.status]
            /\ UNCHANGED <<users, clock, scan, build, documents, blobs, sniff, procs>>

NextList == HandleGetAllByUserID

SpecList == InitList /\ [][NextList]_vars


(***************************************************************************)
(* A Delete and an Update of the document service in flight at the same    *)
(* time: internal/services/document_service.go.  Every action is one call  *)
(* of a method to a store, with the code of the method up to its next      *)
(* call; the stores serialise the calls, the service holds no lock.        *)
(***************************************************************************)

\* A call that has returned err (empty on success).
Returned(proc, err) == [proc EXCEPT !.pc = "done", !.err = err]

\* The other call is between its first store call and its return.
InFlight(proc) == proc.pc \notin {"idle", "done"}

\* Delete: d.GetByID(ctx, id)
DeleteGetByID ==
    \E id \in DocumentIDs, fault \in Faults({"get"}) :
        LET got == DocumentServiceGetByID(documents, blobs, id, fault)
            del == [procs.del EXCEPT !.id = id]
        IN  /\ procs.del.pc = "idle"
            /\ procs' = [procs EXCEPT
                   !.del = IF got.err # "" THEN Returned(del, got.err)
                           ELSE [del EXCEPT !.pc = "storage.Delete",
                                            !.path = got.item.path],
                   !.overlap = @ \/ InFlight(procs.upd)]
            /\ UNCHANGED <<users, clock, last, scan, build, documents, blobs, sniff>>

\* Delete: d.storage.Delete(ctx, document.Path)
DeleteStorageDelete ==
    \E fault \in Faults({"delete"}) :
        LET stDel == StorageDelete(blobs, procs.del.path, fault)
        IN  /\ procs.del.pc = "storage.Delete"
            /\ blobs' = stDel.objs
            /\ procs' = [procs EXCEPT
                   !.del = IF stDel.err # "" THEN Returned(@, stDel.err)
                           ELSE [@ EXCEPT !.pc = "db.Delete"]]
            /\ UNCHANGED <<users, clock, last, scan, build, documents, sniff>>

\* Delete: d.db.Delete(ctx, id)
DeleteDbDelete ==
    \E fault \in Faults({"delete"}) :
        LET dbDel == Delete(documents, procs.del.id, fault)
        IN  /\ procs.del.pc = "db.Delete"
            /\ documents' = dbDel.coll
            /\ procs' = [procs EXCEPT !.del = Returned(@, dbDel.err)]
            /\ UNCHANGED <<users, clock, last, scan, build, blobs, sniff>>

\* Update: DetectFileType, GetStandardizedExtension and d.storage.Upload
UpdateStorageUpload ==
    \E id \in DocumentIDs, content \in SampleContents,
       documentName \in FreshNames(documents, blobs), faults \in {{}, {"close"}} :
        LET fileExtension == DetectFileType(content)
            ext == GetStandardizedExtension(fileExtension.Extension)
            path == Sprintf(id, documentName, ext)
            up == Upload(blobs, path, content, fileExtension.MimeType, clock + 1,
                         faults, Len(content) \div 2)
            document ==
                [name |-> documentName, size |-> up.info.Size,
                 content_type |-> fileExtension.MimeType, path |-> path,
                 updated_at |-> ServerTimestamp]
            upd == [procs.upd EXCEPT !.id = id, !.content = content]
        IN  /\ procs.upd.pc = "idle"
            /\ blobs' = IF fileExtension.err # "" THEN blobs ELSE up.objs
            /\ clock' = clock + 1
            /\ procs' = [procs EXCEPT
                   !.upd = IF fileExtension.err # "" THEN Returned(upd, fileExtension.err)
                           ELSE IF up.err # "" THEN Returned(upd, up.err)
                           ELSE [upd EXCEPT !.pc = "Doc.Set", !.path = path,
                                            !.document = document],
                   !.overlap = @ \/ InFlight(procs.del)]
            /\ UNCHANGED <<users, last, scan, build, documents, sniff>>

\* Update: d.db.Update, its Doc(id).Set(ctx, data, firestore.MergeAll)
UpdateDocSet ==
    \E fault \in Faults({"set"}) :
        /\ procs.upd.pc = "Doc.Set"
        /\ documents' = IF fault = "set" THEN documents
                        ELSE SetMergeAll(documents, procs.upd.id, procs.upd.document,
                                         clock + 1)
        /\ clock' = clock + 1
        /\ procs' = [procs EXCEPT
               !.upd = IF fault = "set" THEN Returned(@, "Unavailable")
                       ELSE [@ EXCEPT !.pc = "Doc.Get"]]
        /\ UNCHANGED <<users, last, scan, build, blobs, sniff>>

\* Update: d.db.Update, its Doc(id).Get(ctx) and doc.DataTo(&result)
UpdateDocGet ==
    \E fault \in Faults({"get"}) :
        LET got == AsDocument(GetByID(documents, procs.upd.id, fault), procs.upd.id)
        IN  /\ procs.upd.pc = "Doc.Get"
            /\ procs' = [procs EXCEPT
                   !.upd = IF got.err # "" THEN Returned(@, got.err)
                           ELSE [Returned(@, "") EXCEPT !.item = got.item]]
            /\ UNCHANGED <<users, clock, last, scan, build, documents, blobs, sniff>>

\* The stores after the Create of one document.
InitRace ==
    /\ users = EmptyFields
    /\ clock = 0
    /\ last = NoDocCall
    /\ scan = NoScan
    /\ build = NoBuild
    /\ \E o \in SampleOwners, content \in {PNGData, PDFData} :
           LET r == DocumentServiceCreate(EmptyFields, EmptyFields, o.userID,
                                          o.documentType, content, "k1", "n1", 0, {},
                                          0)
           IN  documents = r.docs /\ blobs = r.objs
    /\ sniff = NoSniff
    /\ procs = NoProcs

NextRace ==
    \/ DeleteGetByID
    \/ DeleteStorageDelete
    \/ DeleteDbDelete
    \/ UpdateStorageUpload
    \/ UpdateDocSet
    \/ UpdateDocGet

SpecRace == InitRace /\ [][NextRace]_vars

\* The document service's calls one after another on stores that hold one
\* document.
SpecRetry == InitRace /\ [][NextDoc]_vars

(***************************************************************************)
(* A GetAll scan while other clients create and delete records between its *)
(* page requests: pkg/db/firestore.go GetAll, Create and Delete.  scan     *)
(* also keeps whole, the identifiers stored at the first page request and  *)
(* not deleted since.                                                      *)
(***************************************************************************)

PageFirst ==
    \E pageSize \in 1..MaxPage :
        LET r == GetAll(users, "", pageSize, "")
        IN  /\ scan.pages = 0
            /\ scan' = [pageSize |-> pageSize, next |-> r.next, items |-> r.items,
                        refs |-> r.refs, pages |-> 1, lastLen |-> Len(r.items),
                        done |-> (r.next = ""), whole |-> DOMAIN users]
            /\ UNCHANGED <<users, clock, last, build, documents, blobs, sniff, procs>>

PageNext ==
    LET r == GetAll(users, scan.next, scan.pageSize, "")
    IN  /\ scan.pages > 0
        /\ ~scan.done
        /\ scan' = [scan EXCEPT !.next = r.next, !.items = scan.items \o r.items,
                        !.refs = scan.refs \o r.refs, !.pages = scan.pages + 1,
                        !.lastLen = Len(r.items), !.done = (r.next = "")]
        /\ UNCHANGED <<users, clock, last, build, documents, blobs, sniff, procs>>

\* Another client's Create between two page requests.
BetweenCreate ==
    \E id \in Keys \ DOMAIN users :
        /\ scan.pages > 0
        /\ ~scan.done
        /\ clock < MaxKeys + MaxClock
        /\ users' = Create(users, id, ToFields(SeedUser(id)), clock + 1, "").coll
        /\ clock' = clock + 1
        /\ UNCHANGED <<last, scan, build, documents, blobs, sniff, procs>>

\* Another client's Delete between two page requests.
BetweenDelete ==
    \E id \in DOMAIN users :
        /\ scan.pages > 0
        /\ ~scan.done
        /\ clock < MaxKeys + MaxClock
        /\ users' = Delete(users, id, "").coll
        /\ clock' = clock + 1
        /\ scan' = [scan EXCEPT !.whole = @ \ {id}]
        /\ UNCHANGED <<last, build, documents, blobs, sniff, procs>>

NextScan ==
    \/ PageFirst
    \/ PageNext
    \/ BetweenCreate
    \/ BetweenDelete

SpecScan == InitPage /\ [][NextScan]_vars

(***************************************************************************)
(* A GetByQuery scan while other clients create and delete records between *)
(* its page requests.  scan also keeps the constraints, the token and the  *)
(* collection of the last page request, and what that request returned.    *)
(***************************************************************************)

QueryFirst ==
    \E pageSize \in 1..MaxPage, queries \in SampleQueries :
        LET r == GetByQuery(users, queries, "", pageSize, "")
        IN  /\ scan.pages = 0
            /\ scan' = [pageSize |-> pageSize, next |-> r.next, items |-> r.items,
                        refs |-> r.refs, pages |-> 1, lastLen |-> Len(r.items),
                        done |-> (r.next = ""), whole |-> DOMAIN users,
                        queries |-> queries, token |-> "", pre |-> users,
                        page |-> r.refs, err |-> r.err]
            /\ UNCHANGED <<users, clock, last, build, documents, blobs, sniff, procs>>

QueryNext ==
    LET r == GetByQuery(users, scan.queries, scan.next, scan.pageSize, "")
    IN  /\ scan.pages > 0
        /\ ~scan.done
        /\ scan' = [scan EXCEPT !.next = r.next, !.items = scan.items \o r.items,
                        !.refs = scan.refs \o r.refs, !.pages = scan.pages + 1,
                        !.lastLen = Len(r.items), !.done = (r.next = ""),
                        !.token = scan.next, !.pre = users, !.page = r.refs,
                        !.err = r.err]
        /\ UNCHANGED <<users, clock, last, build, documents, blobs, sniff, procs>>

NextQuery ==
    \/ QueryFirst
    \/ QueryNext
    \/ BetweenCreate
    \/ BetweenDelete

SpecQuery == InitPage /\ [][NextQuery]_vars

(***************************************************************************)
(* Properties of the repository.                                           *)
(***************************************************************************)
Unlimited == GetAll(users, "", 0, "")

\* C1: pagination completeness.  On a collection that is not written during
\* the scan, the pages of a finished scan of any page size >= 1, concatenated
\* in call order, are the records of one unlimited GetAll (pageSize 0 or
\* negative), in the same order: none missing, none repeated.
C1_PaginationComplete ==
    scan.done =>
        /\ scan.refs = Unlimited.refs
        /\ scan.items = Unlimited.items
        /\ scan.refs = SortKeys(DOMAIN users)
        /\ GetAll(users, "", -1, "").refs = Unlimited.refs

C1_Witness ==
    /\ scan.done
    /\ scan.pages >= 3
    /\ Len(scan.refs) >= 3
    /\ scan.pageSize >= 2

\* C2: Update of an identifier that holds no record fails with NotFound and
\* leaves the collection without a record at that identifier.
C2_UpdateMissingIsNotFound ==
    (last.op = "Update" /\ last.fault = "" /\ last.id \notin DOMAIN last.pre) =>
        /\ last.err = "NotFound"
        /\ last.id \notin DOMAIN users

\* C3: Delete of an identifier that holds no record fails with NotFound, on
\* the first and on every repeated call, and leaves the collection unchanged.
C3_DeleteMissingIsNotFound ==
    (last.op = "Delete" /\ last.fault = "" /\ last.id \notin DOMAIN last.pre) =>
        /\ last.err = "NotFound"
        /\ users = last.pre

\* C4: GetAll and GetByQuery return the identifier of the last item of the
\* page as next token exactly when pageSize > 0 and the page holds pageSize
\* items; in every other case (short or empty page, pageSize <= 0, an error)
\* the next token is empty.
C4_NextTokenOnlyWhenFull ==
    last.op \in {"GetAll", "GetByQuery"} =>
        IF last.err = "" /\ last.pageSize > 0 /\ Len(last.items) = last.pageSize
        THEN /\ last.next = last.refs[Len(last.refs)]
             /\ last.next # ""
             /\ last.items[Len(last.items)] = DataTo(users[last.next])
        ELSE last.next = ""

C4_Witness ==
    /\ last.op = "GetByQuery"
    /\ last.pageToken # ""
    /\ last.pageSize = 2
    /\ last.next # ""

C6_UpdateTouchesOnlyNamedFields ==
    (last.op = "Update" /\ last.err = "" /\ last.id \in DOMAIN last.pre) =>
        LET old == last.pre[last.id]
            new == users[last.id]
            named == Stamp(Flatten(last.map), last.now)
        IN  /\ DOMAIN new = DOMAIN old \cup DOMAIN named
            /\ \A p \in DOMAIN named : new[p] = named[p]
            /\ \A p \in DOMAIN old \ DOMAIN named : new[p] = old[p]
            /\ DOMAIN users = DOMAIN last.pre
            /\ \A k \in DOMAIN users \ {last.id} : users[k] = last.pre[k]

C6_Witness ==
    /\ last.op = "Update"
    /\ last.err = ""
    /\ last.id \in DOMAIN last.pre
    /\ "address" \in DOMAIN last.map
    /\ "address.country" \in DOMAIN last.pre[last.id]
    /\ last.pre[last.id]["address.country"] = "NO"
    /\ users[last.id]["address.city"] = "Rome"
    /\ Cardinality(DOMAIN users) = 2

\* C7: round trip.  After a successful Create at any identifier, stored
\* before or not, GetByID returns the data created in every field that is
\* not a server-assigned timestamp; nothing of a record stored before
\* survives, and Create returned the stored value as GetByID reads it.
C7_CreateRoundTrip ==
    (last.op = "Create" /\ last.err = "") =>
        LET got == GetByID(users, last.id, "")
        IN  /\ got.err = ""
            /\ \A t \in StringTags : got.item[t] = last.data[t]
            /\ got.item.address = last.data.address
            /\ \A t \in TimeTags :
                  got.item[t] = IF last.data[t] = 0 THEN last.now ELSE last.data[t]
            /\ DOMAIN users[last.id] = UserPaths
            /\ last.item = got.item

C7_Witness ==
    /\ last.op = "Create"
    /\ last.err = ""
    /\ last.id \in DOMAIN last.pre
    /\ DataTo(last.pre[last.id]).first_name # last.data.first_name
    /\ DataTo(last.pre[last.id]).address # last.data.address

(***************************************************************************)
(* Properties of the partial update builder.                               *)
(***************************************************************************)
Built == build.stage \in {"built", "skipped", "sent"} /\ ~build.isNil

Zero(tag) == IF tag \in TimeTags THEN 0 ELSE IF tag = "address" THEN ZeroAddress ELSE ""

PersistedTags == {UserTags[i].tag : i \in 1..Len(UserTags)}

\* C9 as claimed: the map holds a key for a persisted field if and only if
\* the field's value is not the zero value of its type.
C9_KeyIffNonZero ==
    Built => \A tag \in PersistedTags :
                tag \in DOMAIN build.updates <=> build.user[tag] # Zero(tag)

\* C9, amended: the map holds a key for a persisted field that is not
\* timestamp-typed if and only if the field's value is not the zero value of
\* its type, and no other key; for the user with only phone = "0123" set the
\* builder returns exactly the key phone, and the map sent to update has
\* exactly the keys phone and updated_at.
C9_KeyIffNonZeroExceptTimestamps ==
    /\ Built =>
          /\ \A tag \in PersistedTags \ TimeTags :
                tag \in DOMAIN build.updates <=> build.user[tag] # Zero(tag)
          /\ DOMAIN build.updates \subseteq PersistedTags \ TimeTags
          /\ \A tag \in DOMAIN build.updates \cap StringTags :
                build.updates[tag] = build.user[tag]
          /\ build.user = [ZeroUser EXCEPT !.phone = "0123"] =>
                /\ DOMAIN build.updates = {"phone"}
                /\ build.updates["phone"] = "0123"
    /\ build.stage = "sent" =>
          /\ DOMAIN build.sent = DOMAIN build.updates \cup {"updated_at"}
          /\ build.sent["updated_at"] = ServerTimestamp
          /\ build.user = [ZeroUser EXCEPT !.phone = "0123"] =>
                DOMAIN build.sent = {"phone", "updated_at"}

C9_Witness ==
    /\ build.stage = "sent"
    /\ build.user = [ZeroUser EXCEPT !.phone = "0123"]
    /\ DOMAIN build.sent = {"phone", "updated_at"}

\* C10: the builder emits no key for a timestamp-typed field (created_at,
\* updated_at) whatever the input holds, and emits the address key only when
\* a nested address field is not zero; the nested map then holds exactly the
\* nested fields that are not zero, with their values.
C10_NoTimestampKeysNestedOnlyNonZero ==
    Built =>
        LET set == {f \in Range(AddressTags) : build.user.address[f] # ""}
        IN  /\ DOMAIN build.updates \cap TimeTags = {}
            /\ "address" \in DOMAIN build.updates <=> set # {}
            /\ "address" \in DOMAIN build.updates =>
                  /\ DOMAIN build.updates["address"] = set
                  /\ \A f \in set : build.updates["address"][f] = build.user.address[f]

C10_Witness ==
    /\ build.stage = "built"
    /\ build.user.created_at # 0
    /\ build.user.address.city # ""
    /\ build.user.address.zip_code # ""
    /\ build.user.address.street = ""
    /\ DOMAIN build.updates = {"address"}

(***************************************************************************)
(* Properties of the record services.                                      *)
(***************************************************************************)
\* C8: identifier immutability.  After any sequence of operations of the
\* record services every stored record's identifier field equals the key the
\* record is stored under (so it never changes while the record lives).
C8_IdentifierIsKey ==
    \A k \in DOMAIN users : "id" \in DOMAIN users[k] /\ users[k]["id"] = k

\* C11: when the update map built from the input of the user service's
\* Update is empty, the call writes nothing: the collection, the stored
\* record's updated_at included, is what it was before the call, and when the
\* record could be read the call succeeds and returns the stored record.
C11_EmptyMapWritesNothing ==
    (/\ last.op = "UserUpdate"
     /\ Cardinality(DOMAIN buildUpdateMapFromUser(last.data, FALSE)) = 0) =>
        /\ users = last.pre
        /\ (last.id \in DOMAIN last.pre /\ last.fault # "read") =>
              /\ last.err = ""
              /\ last.item = DataTo(last.pre[last.id])

C11_Witness ==
    /\ last.op = "UserUpdate"
    /\ last.data.updated_at # 0
    /\ Cardinality(DOMAIN buildUpdateMapFromUser(last.data, FALSE)) = 0
    /\ last.id \in DOMAIN last.pre
    /\ last.pre[last.id]["updated_at"] < clock
    /\ last.fault = "set"
    /\ last.err = ""
    /\ users = last.pre

(***************************************************************************)
(* Properties of the file-type functions.                                  *)
(***************************************************************************)
StartsWith(d, sig) == Len(d) >= Len(sig) /\ \A i \in 1..Len(sig) : d[i] = sig[i]

Detected(mime, ext) ==
    /\ sniff.info.err = ""
    /\ sniff.info.MimeType = mime
    /\ Str(sniff.info.Extension) = ext

\* C12: DetectFileType fails with ErrInsufficientData on fewer than 8 bytes,
\* whatever they start with; on 8 bytes or more it answers application/pdf
\* .pdf for the prefix 25 50 44 46, image/tiff .tiff for 49 49 2A 00 and for
\* 4D 4D 00 2A, image/png .png for 89 50 4E 47 0D 0A 1A 0A, image/jpeg .jpg
\* for FF D8 FF, image/bmp .bmp for 42 4D, and fails with ErrUnknownFileType
\* when the data starts with none of them.
C12_DetectFileTypeTable ==
    sniff.op = "DetectFileType" =>
        LET d == sniff.data
        IN  /\ Len(d) < 8 =>
                sniff.info = FileTypeInfo("", <<>>, "ErrInsufficientData")
            /\ Len(d) >= 8 =>
                /\ StartsWith(d, <<37, 80, 68, 70>>) => Detected("application/pdf", ".pdf")
                /\ StartsWith(d, <<73, 73, 42, 0>>) => Detected("image/tiff", ".tiff")
                /\ StartsWith(d, <<77, 77, 0, 42>>) => Detected("image/tiff", ".tiff")
                /\ StartsWith(d, <<137, 80, 78, 71, 13, 10, 26, 10>>) =>
                        Detected("image/png", ".png")
                /\ StartsWith(d, <<255, 216, 255>>) => Detected("image/jpeg", ".jpg")
                /\ StartsWith(d, <<66, 77>>) => Detected("image/bmp", ".bmp")
                /\ (\A k \in 1..Len(Signatures) : ~StartsWith(d, Signatures[k])) =>
                        sniff.info = FileTypeInfo("", <<>>, "ErrUnknownFileType")

C12_Witness ==
    /\ sniff.op = "DetectFileType"
    /\ sniff.data = <<137, 80, 78, 71, 13, 10, 26>>
    /\ sniff.info.err = "ErrInsufficientData"

\* An extension as a caller writes it: a dot followed by characters that are
\* neither dots nor path separators.
IsExtension(name) ==
    /\ Len(name) > 0
    /\ name[1] = "."
    /\ \A i \in 2..Len(name) : name[i] \notin {".", "/"}

\* C13: GetStandardizedExtension lower-cases the extension it is given and
\* answers .jpg for .jpeg, .jpe, .jif and .jfif, .tiff for .tif, the
\* extension itself for .pdf, .png, .jpg, .tiff and .bmp, and .bin for every
\* other extension; so .JPEG gives .jpg, .TIF gives .tiff, .docx gives .bin
\* and .png gives .png.
C13_StandardizedExtensionTable ==
    sniff.op = "GetStandardizedExtension" =>
        LET in == Str(ToLower(sniff.name))
            out == Str(sniff.ext)
        IN  /\ IsExtension(sniff.name) =>
                out = IF in \in {".jpeg", ".jpe", ".jif", ".jfif"} THEN ".jpg"
                      ELSE IF in = ".tif" THEN ".tiff"
                      ELSE IF in \in {".pdf", ".png", ".jpg", ".tiff", ".bmp"} THEN in
                      ELSE ".bin"
            /\ sniff.name = <<".", "J", "P", "E", "G">> => out = ".jpg"
            /\ sniff.name = <<".", "T", "I", "F">> => out = ".tiff"
            /\ sniff.name = <<".", "d", "o", "c", "x">> => out = ".bin"
            /\ sniff.name = <<".", "p", "n", "g">> => out = ".png"

C13_Witness ==
    /\ sniff.op = "GetStandardizedExtension"
    /\ sniff.name = <<".", "J", "P", "E", "G">>
    /\ sniff.ext = <<".", "j", "p", "g">>

(***************************************************************************)
(* Properties of the blob store.                                           *)
(***************************************************************************)
\* C18: every FileInfo handed to a caller, the one Upload returns and each
\* entry List returns, carries the name of the store's bucket.
C18_FileInfoCarriesBucket ==
    /\ (last.op = "Upload" /\ last.err = "") => last.info.Bucket = BucketName
    /\ (last.op = "List" /\ last.err = "") =>
          \A i \in 1..Len(last.files) : last.files[i].Bucket = BucketName

\* C19: Upload closes the writer exactly once whatever happens, and when the
\* copy, the close or the read of the attributes fails it returns an error
\* and no FileInfo.
C19_WriterClosedOnce ==
    last.op = "Upload" =>
        /\ Cardinality({i \in 1..Len(last.calls) : last.calls[i] = "Close"}) = 1
        /\ last.faults # {} => (last.err # "" /\ last.info = NoFileInfo)

C19_Witness ==
    /\ last.op = "Upload"
    /\ last.faults = {"copy"}
    /\ last.calls = <<"Copy", "Close">>
    /\ last.err = "failed to copy content to GCS"
    /\ last.info = NoFileInfo

(***************************************************************************)
(* Properties of the document service.                                     *)
(***************************************************************************)
\* The objects a call added to the bucket.
NewObjects == DOMAIN blobs \ DOMAIN last.objs

\* Every object that was in the bucket before the call is still there, as
\* it was.
OldObjectsKept == \A p \in DOMAIN last.objs : p \in DOMAIN blobs /\ blobs[p] = last.objs[p]

\* C14: a successful Create for owner u with content that sniffs to the
\* extension e stores the object under documents/{u}/{name}{e}, that is with
\* one dot between the random name and the extension's letters
\* (documents/u1/n1.png for PNG content), with the sniffed media type, and
\* the record it writes holds exactly that path.
C14_CreatePathHasOneDot ==
    (last.op = "Create" /\ last.err = "") =>
        LET e == DetectFileType(last.content)
            want == <<"d", "o", "c", "u", "m", "e", "n", "t", "s", "/", last.userID,
                      "/", last.name>> \o e.Extension
        IN  /\ NewObjects = {want}
            /\ blobs[want].ContentType = e.MimeType
            /\ documents[last.id]["path"] = want

\* C15: Delete fetches the record, then deletes the object, then deletes the
\* record.  When the fetch fails nothing is deleted; when the deletion of
\* the object fails the deletion of the record is not attempted, the record
\* stays as it was and the error is returned.
C15_DeleteOrder ==
    last.op = "Delete" =>
        LET fetched == last.id \in DOMAIN last.docs /\ "get" \notin last.faults
            blobFails == \/ "blob" \in last.faults
                         \/ last.docs[last.id]["path"] \notin DOMAIN last.objs
        IN  /\ \E n \in 1..3 :
                  last.calls = SubSeq(<<"db.GetByID", "storage.Delete", "db.Delete">>, 1, n)
            /\ ~fetched =>
                  /\ last.err # ""
                  /\ documents = last.docs
                  /\ blobs = last.objs
            /\ (fetched /\ blobFails) =>
                  /\ last.err # ""
                  /\ \A i \in 1..Len(last.calls) : last.calls[i] # "db.Delete"
                  /\ documents = last.docs
            /\ (fetched /\ ~blobFails) =>
                  /\ last.calls = <<"db.GetByID", "storage.Delete", "db.Delete">>
                  /\ last.docs[last.id]["path"] \notin DOMAIN blobs

C15_Witness ==
    /\ last.op = "Delete"
    /\ last.faults = {"blob"}
    /\ last.id \in DOMAIN last.docs
    /\ last.docs[last.id]["path"] \in DOMAIN last.objs
    /\ last.calls = <<"db.GetByID", "storage.Delete">>
    /\ last.err # ""
    /\ last.id \in DOMAIN documents

UpdatedTags == {"name", "size", "content_type", "path", "updated_at"}

\* C17: Update never deletes an object; a successful Update has uploaded the
\* content under a path that held no object and points the record there, so
\* the object the record pointed to before and the new one both exist; of
\* the record's fields only name, size, content_type, path and updated_at
\* change: user_id, type, bucket, id and created_at stay what they were.
C17_UpdateKeepsOldBlob ==
    last.op = "Update" =>
        /\ OldObjectsKept
        /\ \A i \in 1..Len(last.calls) : last.calls[i] # "storage.Delete"
        /\ last.err = "" =>
              LET new == documents[last.id]
              IN  /\ NewObjects = {new["path"]}
                  /\ blobs[new["path"]].data = last.content
                  /\ \A k \in DOMAIN last.docs \ {last.id} :
                        k \in DOMAIN documents /\ documents[k] = last.docs[k]
                  /\ last.id \in DOMAIN last.docs =>
                        LET old == last.docs[last.id]
                        IN  /\ DOMAIN new = DOMAIN old \cup UpdatedTags
                            /\ \A f \in DOMAIN old \ UpdatedTags : new[f] = old[f]
                            /\ new["updated_at"] > old["updated_at"]

C17_Witness ==
    /\ last.op = "Update"
    /\ last.err = ""
    /\ last.id \in DOMAIN last.docs
    /\ last.docs[last.id]["user_id"] = "u1"
    /\ last.docs[last.id]["path"] \in DOMAIN blobs
    /\ documents[last.id]["path"] \in DOMAIN blobs
    /\ documents[last.id]["path"] # last.docs[last.id]["path"]
    /\ documents[last.id]["content_type"] # last.docs[last.id]["content_type"]
    /\ documents[last.id]["user_id"] = "u1"

(***************************************************************************)
(* Properties of the repository's queries.                                 *)
(***************************************************************************)
\* The stored document satisfies the constraint.
Satisfies(doc, q) ==
    /\ q.Path \in DOMAIN doc
    /\ (q.Op = "==" => doc[q.Path] = q.Value)
    /\ (q.Op = "in" => doc[q.Path] \in q.Value)

\* The documents a GetByQuery call may return: those that satisfy every
\* constraint and come strictly after the page token.
Eligible ==
    {k \in DOMAIN last.pre :
        /\ \A i \in 1..Len(last.queries) : Satisfies(last.pre[k], last.queries[i])
        /\ last.pageToken # "" => Rank(k) > Rank(last.pageToken)}

\* C20: a GetByQuery call that succeeds returns the documents that satisfy
\* every constraint and whose identifier is strictly greater than the page
\* token (when one is given), in ascending order of identifier, the first
\* pageSize of them when pageSize is positive and all of them otherwise; a
\* call with a page token reads the token's document exactly once, before
\* the query runs, and a call without one reads no document on its own.
C20_QueryFiltersOrdersLimits ==
    last.op = "GetByQuery" =>
        /\ last.err = "" =>
              /\ \A i \in 1..Len(last.refs) : last.refs[i] \in Eligible
              /\ \A i, j \in 1..Len(last.refs) :
                    i < j => Rank(last.refs[i]) < Rank(last.refs[j])
              /\ \A k \in Eligible :
                    (\A i \in 1..Len(last.refs) : last.refs[i] # k) =>
                        \A i \in 1..Len(last.refs) : Rank(last.refs[i]) < Rank(k)
              /\ Len(last.refs) = IF last.pageSize > 0
                                  THEN Min(last.pageSize, Cardinality(Eligible))
                                  ELSE Cardinality(Eligible)
              /\ Len(last.items) = Len(last.refs)
              /\ \A i \in 1..Len(last.refs) : last.items[i].id = last.refs[i]
        /\ last.calls \in IF last.pageToken # ""
                          THEN {<<"Doc.Get">>, <<"Doc.Get", "Query.Documents">>}
                          ELSE {<<"Query.Documents">>}
        /\ last.err = "" => last.calls[Len(last.calls)] = "Query.Documents"

C20_Witness ==
    /\ last.op = "GetByQuery"
    /\ last.err = ""
    /\ Len(last.queries) = 2
    /\ last.pageToken = "k1"
    /\ last.pageSize = 1
    /\ last.refs = <<"k3">>
    /\ "k2" \in DOMAIN last.pre
    /\ last.calls = <<"Doc.Get", "Query.Documents">>

(***************************************************************************)
(* Properties of the user lookup.                                          *)
(***************************************************************************)
\* The stored users whose firebase_id is the one looked up.
SameIdentity ==
    {k \in DOMAIN last.pre :
        "firebase_id" \in DOMAIN last.pre[k] /\ last.pre[k]["firebase_id"] = last.id}

\* C21: the user service's GetByID sends the repository one query, the
\* equality of firebase_id with the given value, limited to one result.  A
\* lookup that succeeds returns a stored user whose firebase_id is the given
\* value, never another one; when no stored user has that firebase_id the
\* lookup fails with "user not found".
C21_LookupByFirebaseID ==
    last.op = "UserGetByID" =>
        /\ last.queries = << [Path |-> "firebase_id", Op |-> "==", Value |-> last.id] >>
        /\ last.pageSize = 1
        /\ last.calls = <<"Query.Documents">>
        /\ last.err = "" =>
              /\ last.item.firebase_id = last.id
              /\ \E k \in SameIdentity : last.item = DataTo(last.pre[k])
        /\ (last.fault = "" /\ SameIdentity = {}) => last.err = "user not found"
        /\ (last.fault = "" /\ SameIdentity # {}) => last.err = ""

C21_Witness ==
    /\ last.op = "UserGetByID"
    /\ last.id = "f2"
    /\ last.err = ""
    /\ last.item.firebase_id = "f2"
    /\ \E k \in DOMAIN last.pre : last.pre[k]["firebase_id"] = "f1"

(***************************************************************************)
(* Properties of the handlers.                                             *)
(***************************************************************************)
\* C22: the status a handler answers with tells the class of the failure:
\* 404 when the record asked for does not exist, a 5xx status when a store
\* call failed, 400 when the document type cannot be parsed.
C22_StatusTellsErrorClass ==
    /\ (/\ last.op \in {"GetByID", "Delete"}
        /\ last.faults = {}
        /\ last.id \notin DOMAIN last.docs) => last.status = 404
    /\ (/\ last.op \in {"GetByID", "Delete"}
        /\ last.faults # {}
        /\ last.err # "") => last.status \in 500..599
    /\ (/\ last.op = "Create"
        /\ last.userID # ""
        /\ ParseDocumentType(last.type).err # "") => last.status = 400


(***************************************************************************)
(* Properties of the listing of a user's documents.                        *)
(***************************************************************************)

OwnedBy(userID) == {k \in DOMAIN documents : documents[k].user_id = userID}

ListedIDs == {last.items[i].id : i \in 1..Len(last.items)}

\* C23: a successful GetAllByUserID returns every stored document whose
\* owner is the user asked for, however many there are, and no document of
\* another owner.
C23_GetAllByUserIDReturnsAll ==
    (last.op = "GetAllByUserID" /\ last.err = "") =>
        /\ ListedIDs = OwnedBy(last.userID)
        /\ \A i \in 1..Len(last.items) : last.items[i].user_id = last.userID


(***************************************************************************)
(* Properties of calls of the document service in flight together.         *)
(***************************************************************************)

\* A Delete and an Update of the same document ran at the same time and
\* both have returned.
RaceOver ==
    /\ procs.del.pc = "done"
    /\ procs.upd.pc = "done"
    /\ procs.overlap
    /\ procs.del.id = procs.upd.id

\* C24: when a Delete and an Update of the same document have run
\* concurrently and the Delete has returned success, no metadata record is
\* stored under the identifier once both have returned.
C24_DeleteWinsOverUpdate ==
    (RaceOver /\ procs.del.err = "") => procs.del.id \notin DOMAIN documents


(***************************************************************************)
(* Properties of a scan with concurrent writers.                           *)
(***************************************************************************)

\* The positions of the scan's result at which id was returned.
ReturnedAt(id) == {i \in 1..Len(scan.refs) : scan.refs[i] = id}

\* C25: while records are created and deleted between the page requests of
\* a GetAll scan, no identifier is returned twice, and when the scan has
\* ended every record stored during the whole scan was returned exactly
\* once.
C25_ScanUnderWrites ==
    scan.pages > 0 =>
        /\ \A i, j \in 1..Len(scan.refs) : scan.refs[i] = scan.refs[j] => i = j
        /\ scan.done => \A id \in scan.whole : Cardinality(ReturnedAt(id)) = 1

\* A finished scan of three pages or more during which a returned record
\* was deleted and a record was created behind the cursor, with records
\* stored all along.
C25_Witness ==
    /\ scan.pages >= 3
    /\ scan.done
    /\ scan.whole # {}
    /\ \E i \in 1..Len(scan.refs) : scan.refs[i] \notin DOMAIN users
    /\ \E id \in DOMAIN users : ReturnedAt(id) = {}


\* C26: a GetByQuery page requested with a token the scan returned, after
\* the record the token names was deleted, succeeds and returns the
\* matching records after the token in identifier order, up to the page
\* size, as GetAll does with the same token.
C26_QueryContinuesPastDeletedToken ==
    (scan.pages > 1 /\ scan.token \notin DOMAIN scan.pre) =>
        /\ scan.err = ""
        /\ scan.page = Limit(SortKeys(StartAfter(Where(scan.pre, scan.queries), scan.token)),
                             scan.pageSize)
        /\ scan.queries = <<>> =>
               scan.page = GetAll(scan.pre, scan.token, scan.pageSize, "").refs


(***************************************************************************)
(* Properties of sequences of calls of the document service.               *)
(***************************************************************************)

\* The last call was a Delete that deleted the object and then failed to
\* delete the record.
DeleteHalfDone ==
    /\ last.op = "Delete"
    /\ last.faults = {"delete"}
    /\ last.calls = <<"db.GetByID", "storage.Delete", "db.Delete">>
    /\ last.err # ""

\* C27: after a Delete that deleted the object and failed at the deletion of
\* the record, a Delete of the same identifier during which no store call
\* fails succeeds and removes the record.
C27_DeleteRetryCompletes ==
    [][(DeleteHalfDone /\ last'.op = "Delete" /\ last'.id = last.id /\ last'.faults = {})
           => (last'.err = "" /\ last.id \notin DOMAIN documents')]_vars


\* The prefix of the objects of an owner: documents/{user_id}/
OwnerPrefix(userID) == <<"d", "o", "c", "u", "m", "e", "n", "t", "s", "/", userID, "/">>

\* C28: after any sequence of Create and Update calls, the path of every
\* stored metadata record that has an owner starts with documents/{user_id}/
\* for that owner.
C28_PathUnderOwnerPrefix ==
    \A k \in DOMAIN documents :
        "user_id" \in DOMAIN documents[k] =>
            HasPrefix(documents[k]["path"], OwnerPrefix(documents[k]["user_id"]))


\* The fields of a user that the client supplies.
ClientFields == {"first_name", "last_name", "email", "phone", "firebase_id", "address"}

\* C29: the user returned by a successful Create of the user service equals
\* the input in every client-supplied field, each field of the nested
\* address (building number, street, city, postcode, country) included; only
\* the identifier and the timestamps are the server's.
C29_UserCreateRoundTrip ==
    (last.op = "UserCreate" /\ last.err = "") =>
        /\ \A f \in ClientFields : last.item[f] = last.data[f]
        /\ \A a \in DOMAIN last.data.address : last.item.address[a] = last.data.address[a]


(***************************************************************************)
(* Properties of the signature table.                                      *)
(***************************************************************************)

\* What DetectFileType returns for the k-th signature of the table.
SignatureTypes ==
    <<FileTypeInfo("application/pdf", <<".", "p", "d", "f">>, ""),
      FileTypeInfo("image/tiff", <<".", "t", "i", "f", "f">>, ""),
      FileTypeInfo("image/tiff", <<".", "t", "i", "f", "f">>, ""),
      FileTypeInfo("image/png", <<".", "p", "n", "g">>, ""),
      FileTypeInfo("image/jpeg", <<".", "j", "p", "g">>, ""),
      FileTypeInfo("image/bmp", <<".", "b", "m", "p">>, "")>>

\* The signatures of the table that data starts with.
Matching(data) == {k \in 1..Len(Signatures) : HasPrefix(data, Signatures[k])}

\* The detection with the signatures checked in the given order.
RECURSIVE DetectInOrder(_, _)
DetectInOrder(data, order) ==
    IF order = <<>> THEN FileTypeInfo("", <<>>, "ErrUnknownFileType")
    ELSE IF HasPrefix(data, Signatures[Head(order)]) THEN SignatureTypes[Head(order)]
    ELSE DetectInOrder(data, Tail(order))

\* The order of the table with its k-th signature checked first.
MovedFirst(k) == <<k>> \o SelectSeq(<<1, 2, 3, 4, 5, 6>>, LAMBDA n : n # k)

\* The order of the table, reversed.
Reversed == <<6, 5, 4, 3, 2, 1>>

\* C30: data of 8 bytes or more starts with at most one of the six
\* signatures, so that DetectFileType returns what a check of the
\* signatures in any other order returns: with any signature moved to the
\* front (the 2-byte BMP signature included) and with the order reversed.
C30_SignaturesAreExclusive ==
    (sniff.op = "DetectFileType" /\ Len(sniff.data) >= 8) =>
        /\ Cardinality(Matching(sniff.data)) <= 1
        /\ sniff.info = DetectInOrder(sniff.data, <<1, 2, 3, 4, 5, 6>>)
        /\ \A k \in 1..Len(Signatures) :
               sniff.info = DetectInOrder(sniff.data, MovedFirst(k))
        /\ sniff.info = DetectInOrder(sniff.data, Reversed)

\* Data that starts with the BMP signature and goes on with the bytes of
\* longer signatures is detected as BMP.
C30_Witness ==
    /\ sniff.op = "DetectFileType"
    /\ sniff.data = <<66, 77, 0, 42, 13, 10, 26, 10>>
    /\ Matching(sniff.data) = {6}
    /\ sniff.info = FileTypeInfo("image/bmp", <<".", "b", "m", "p">>, "")

====
